---------------------------- MODULE Spec2Model ----------------------------
(***************************************************************************)
(* A model of the echo-tracing pipeline of badukoos/echosnare:             *)
(*   src/src/crawler/search_engines.py  (search adapters, GDELT repair)    *)
(*   src/src/crawler/echo_spider.py     (crawl_and_compare)                *)
(*                                                                         *)
(* A Python str is modelled as a sequence of one-character strings, so     *)
(* that strip, split, join, startswith and the regular expressions of the  *)
(* source are computed character by character.  A character that has no    *)
(* ASCII spelling is written as a named symbol (for instance "ldquo").     *)
(***************************************************************************)
EXTENDS Integers, Sequences, FiniteSets, TLC

VARIABLES
  entry,    \* the function the environment called: "single", "variants", ...
  sq0,      \* search_gdelt_single: the query of the outermost call
  sq,       \* search_gdelt_single: the query of the current (possibly recursive) call
  smax,     \* search_gdelt_single: max_results
  sstart,   \* search_gdelt_single: start
  send,     \* search_gdelt_single: end
  sspan,    \* search_gdelt_single: timespan (as passed, None allowed)
  sstat,    \* search_gdelt_single: "idle", "ready", "sent", "returned", "raised"
  sreqs,    \* the params of every requests.get issued by the outermost call
  slast,    \* the response handled last, with the query it answered
  sret,     \* the list search_gdelt_single returned
  vsentence,\* search_gdelt_variants: sentence
  vlimit,   \* search_gdelt_variants: limit
  vstart,   \* search_gdelt_variants: start
  vend,     \* search_gdelt_variants: end
  vspan,    \* search_gdelt_variants: timespan (as passed, None allowed)
  vqueries, \* search_gdelt_variants: the list build_gdelt_queries returned
  vidx,     \* search_gdelt_variants: the index in vqueries of the variant in hand
  vurls,    \* search_gdelt_variants: urls
  vseen,    \* search_gdelt_variants: seen
  vstat,    \* search_gdelt_variants: "idle", "ready", "waiting", "returned", "raised"
  vret,     \* the list search_gdelt_variants returned
  dq,       \* search_duckduckgo: query
  dmax,     \* search_duckduckgo: max_results
  dstat,    \* search_duckduckgo: "idle", "ready", "returned"
  dlast,    \* the answer search_duckduckgo handled
  dret,     \* the list search_duckduckgo returned
  gq,       \* search_google_cse: query
  gnum,     \* search_google_cse: num
  gstat,    \* search_google_cse: "idle", "ready", "returned"
  glast,    \* the answer search_google_cse handled
  gret,     \* the list search_google_cse returned
  cseed,    \* crawl_and_compare: seed_url
  cengine,  \* crawl_and_compare: engine
  ckeys,    \* crawl_and_compare: config holds the two Google keys
  cthreshold, \* crawl_and_compare: threshold, in ten-thousandths
  clim,     \* crawl_and_compare: gdelt_limit
  cstart,   \* crawl_and_compare: gdelt_start
  cend,     \* crawl_and_compare: gdelt_end
  cspan,    \* crawl_and_compare: gdelt_timespan (as passed, None allowed)
  cstat,    \* crawl_and_compare: "idle", "ready", "loop", "searching",
            \* "candidates", "done", "aborted", "raised"
  cseedtext,\* crawl_and_compare: seed_text
  csents,   \* crawl_and_compare: key_sentences
  csi,      \* the number of key sentences already searched
  cresults, \* crawl_and_compare: results of the search in hand
  cri,      \* the number of results already handled
  cmatches, \* crawl_and_compare: found_matches
  clast,    \* what the loop body did with the result handled last
  cnet,     \* network operations since the last time.sleep (2 = two or more)
  files,    \* the output directory: file name -> persisted list, or NoFile
  tfrags,   \* get_top_sentences: the fragments the text is made of
  ttext,    \* get_top_sentences: text
  tn,       \* get_top_sentences: n
  tmaxw,    \* get_top_sentences: max_words
  tcalls,   \* the number of calls made with these arguments
  tprev,    \* the list the call before the last returned
  tret,     \* the list get_top_sentences returned
  rfiles,   \* build_reuse_map: the files glob() gives, in its order
  rfi,      \* the number of files already scanned
  rentries, \* build_reuse_map: entries of the file in hand
  rei,      \* the number of entries of it already handled
  rmap,     \* build_reuse_map: reuse_map, its groups in insertion order
  rstat,    \* build_reuse_map: "idle", "files", "entries", "returned", "raised"
  amap,     \* detect_anomalies: reuse_map, its groups in the order of the dict
  alabels,  \* detect_anomalies: domain_labels
  acalls,   \* the number of calls of detect_anomalies made on these inputs
  aprev,    \* the list the call before the last returned
  aret,     \* the list detect_anomalies returned
  ecache,   \* DomainEnricher: the content of the cache file of each cert_id
  elast,    \* DomainEnricher: self.last_request_time
  enow,     \* the clock, in seconds, when the last call of _download_cert ended
  esends,   \* the requests _download_cert sent: time, cert_id and outcome
  ecalls,   \* the number of calls of _download_cert
  eret      \* what the last call of _download_cert returned

svars == <<sq0, sq, smax, sstart, send, sspan, sstat, sreqs, slast, sret>>
vvars == <<vsentence, vlimit, vstart, vend, vspan, vqueries, vidx, vurls, vseen, vstat, vret>>
dvars == <<dq, dmax, dstat, dlast, dret>>
gvars == <<gq, gnum, gstat, glast, gret>>
cvars == <<cseed, cengine, ckeys, cthreshold, clim, cstart, cend, cspan, cstat,
           cseedtext, csents, csi, cresults, cri, cmatches, clast, files>>
tvars == <<tfrags, ttext, tn, tmaxw, tcalls, tprev, tret>>
\* The variables of the programs that run apart from the crawler.
rvars == <<rfiles, rfi, rentries, rei, rmap, rstat>>
avars == <<amap, alabels, acalls, aprev, aret>>
evars == <<ecache, elast, enow, esends, ecalls, eret>>
ovars == <<tvars, rvars, avars, evars>>
vars == <<entry, svars, vvars, dvars, gvars, cvars, cnet, ovars>>

(***************************************************************************)
(* Python values.                                                          *)
(***************************************************************************)
\* Python's None, where a str is expected.
NoneVal == <<"<None>">>
\* A request parameter that is not in the params dict.
Absent == <<"<absent>">>
\* The marker of a raised ValueError.
ValueError == <<"<ValueError>">>
\* Python truthiness of a str-or-None value: None and "" are falsy.
Truthy(x) == x # NoneVal /\ x # <<>>

(***************************************************************************)
(* Characters.                                                             *)
(***************************************************************************)
DQ == "\""
Digits == {"0", "1", "2", "3", "4", "5", "6", "7", "8", "9"}
UpperSeq == <<"A", "B", "C", "D", "E", "F", "G", "H", "I", "J", "K", "L", "M",
              "N", "O", "P", "Q", "R", "S", "T", "U", "V", "W", "X", "Y", "Z">>
LowerSeq == <<"a", "b", "c", "d", "e", "f", "g", "h", "i", "j", "k", "l", "m",
              "n", "o", "p", "q", "r", "s", "t", "u", "v", "w", "x", "y", "z">>
Uppers == {UpperSeq[i] : i \in 1..26}
Lowers == {LowerSeq[i] : i \in 1..26}
IsAlnum(c) == c \in Digits \cup Uppers \cup Lowers
\* \w of the re module, on the characters of the model.
IsWord(c) == IsAlnum(c) \/ c = "_"
\* \s of the re module and the whitespace of str.strip() and str.split().
IsSpace(c) == c \in {" ", "\t", "\n", "\r", "\f", "nbsp"}

Max(a, b) == IF a >= b THEN a ELSE b
Min(a, b) == IF a <= b THEN a ELSE b

(***************************************************************************)
(* str methods.                                                            *)
(***************************************************************************)
RECURSIVE LStrip(_)
LStrip(s) == IF s # <<>> /\ IsSpace(Head(s)) THEN LStrip(Tail(s)) ELSE s

RECURSIVE RStrip(_)
RStrip(s) ==
  IF s # <<>> /\ IsSpace(s[Len(s)]) THEN RStrip(SubSeq(s, 1, Len(s) - 1)) ELSE s

\* s.strip()
Strip(s) == RStrip(LStrip(s))

RECURSIVE SplitWs(_, _, _)
SplitWs(s, cur, acc) ==
  IF s = <<>> THEN (IF cur = <<>> THEN acc ELSE Append(acc, cur))
  ELSE IF IsSpace(Head(s))
       THEN SplitWs(Tail(s), <<>>, IF cur = <<>> THEN acc ELSE Append(acc, cur))
       ELSE SplitWs(Tail(s), Append(cur, Head(s)), acc)

\* s.split(): the maximal runs of non-whitespace characters.
Split(s) == SplitWs(s, <<>>, <<>>)

RECURSIVE Join(_, _)
\* sep.join(parts)
Join(parts, sep) ==
  IF parts = <<>> THEN <<>>
  ELSE IF Len(parts) = 1 THEN parts[1]
  ELSE parts[1] \o sep \o Join(Tail(parts), sep)

\* s.startswith('"') and s.endswith('"')
IsQuoted(s) == s # <<>> /\ s[1] = DQ /\ s[Len(s)] = DQ

(***************************************************************************)
(* _tokens, build_gdelt_queries (search_engines.py 70-167).                *)
(***************************************************************************)
RECURSIVE ToStr(_)
\* The characters of s as one string, to look s up in a set of words.
ToStr(s) == IF s = <<>> THEN "" ELSE Head(s) \o ToStr(Tail(s))

IndexIn(seq, c) == CHOOSE i \in 1..Len(seq) : seq[i] = c
LowerChar(c) == IF c \in Uppers THEN LowerSeq[IndexIn(UpperSeq, c)] ELSE c
UpperChar(c) == IF c \in Lowers THEN UpperSeq[IndexIn(LowerSeq, c)] ELSE c
\* s.lower(), s.upper()
Lower(s) == [i \in 1..Len(s) |-> LowerChar(s[i])]
Upper(s) == [i \in 1..Len(s) |-> UpperChar(s[i])]
\* s.isupper(): a cased character, and no lower-case one.
IsUpperStr(s) ==
  /\ \E i \in 1..Len(s) : s[i] \in Uppers
  /\ \A i \in 1..Len(s) : s[i] \notin Lowers

\* seq[:n]
Take(seq, n) == SubSeq(seq, 1, Min(n, Len(seq)))
\* seq[n:]
Drop(seq, n) == SubSeq(seq, n + 1, Len(seq))

STOP ==
  {"the", "a", "an", "and", "or", "but", "to", "of", "in", "on", "for", "with",
   "as", "by", "is", "are", "was", "were", "be", "been", "being", "that",
   "this", "it", "its", "at", "from", "about", "into", "over", "after",
   "before", "between", "through", "their", "has", "have", "had", "today",
   "yesterday", "tomorrow", "new", "more"}

ACRONYM_ALLOW == {"NATO", "UAE", "EU", "US", "UK", "UN"}

\* DEFAULTS["gdelt_query"]
NearK == 10
MaxTerms == 8
Sourcelang == <<"e", "n", "g", "l", "i", "s", "h">>

\* The curly quotes and the no-break space, which have no ASCII spelling,
\* are the symbols "rsquo", "ldquo", "rdquo" and "nbsp".
NormalizeChar(c) ==
  CASE c = "rsquo" -> "'"
    [] c = "ldquo" -> DQ
    [] c = "rdquo" -> DQ
    [] c = "nbsp" -> " "
    [] OTHER -> c

_normalize_text(s) == Strip([i \in 1..Len(s) |-> NormalizeChar(s[i])])

RECURSIVE SpanTokenChars(_, _)
\* The first index at or after i of s that holds no [A-Za-z0-9\-].
SpanTokenChars(s, i) ==
  IF i <= Len(s) /\ (IsAlnum(s[i]) \/ s[i] = "-")
  THEN SpanTokenChars(s, i + 1) ELSE i

RECURSIVE FindTokens(_, _)
\* re.findall(r"[A-Za-z0-9][A-Za-z0-9\-]{1,}", s), from index i on.
FindTokens(s, i) ==
  IF i > Len(s) THEN <<>>
  ELSE LET e == SpanTokenChars(s, i + 1)
       IN IF IsAlnum(s[i]) /\ e > i + 1
          THEN <<SubSeq(s, i, e - 1)>> \o FindTokens(s, e)
          ELSE FindTokens(s, i + 1)

RECURSIVE TokensLoop(_, _, _)
\* The loop of lines 90-99 over the raw tokens.
TokensLoop(raw, out, seen) ==
  IF raw = <<>> THEN out
  ELSE LET t == Head(raw)
           tl == Lower(t)
       IN IF ToStr(tl) \in STOP THEN TokensLoop(Tail(raw), out, seen)
          ELSE IF Len(t) < 3 /\ ToStr(Upper(t)) \notin ACRONYM_ALLOW
               THEN TokensLoop(Tail(raw), out, seen)
          ELSE IF tl \notin seen
               THEN TokensLoop(Tail(raw), Append(out, t), seen \cup {tl})
          ELSE TokensLoop(Tail(raw), out, seen)

\* _tokens without the loop of lines 90-99: every raw token is kept.
_tokens_raw(sentence) == FindTokens(_normalize_text(sentence), 1)

_tokens(sentence) == TokensLoop(FindTokens(_normalize_text(sentence), 1), <<>>, {})

\* f"\"{' '.join(words)}\""
_quote(words) == <<DQ>> \o Join(words, <<" ">>) \o <<DQ>>

DigitSeq == <<"0", "1", "2", "3", "4", "5", "6", "7", "8", "9">>
RECURSIVE IntToStr(_)
\* str(n) for n >= 0
IntToStr(n) ==
  IF n < 10 THEN <<DigitSeq[n + 1]>>
  ELSE IntToStr(n \div 10) \o <<DigitSeq[(n % 10) + 1]>>

RECURSIVE DedupClean(_, _, _)
\* Lines 160-166: normalise whitespace, drop empties and repeats.
DedupClean(variants, seen, clean) ==
  IF variants = <<>> THEN clean
  ELSE LET q == Join(Split(Head(variants)), <<" ">>)
       IN IF q # <<>> /\ q \notin seen
          THEN DedupClean(Tail(variants), seen \cup {q}, Append(clean, q))
          ELSE DedupClean(Tail(variants), seen, clean)

\* build_gdelt_queries with its default near_k, max_terms and sourcelang;
\* exclude_domain is accepted and ignored (line 143-144).
build_gdelt_queries(sentence) ==
  LET terms == Take(_tokens(sentence), MaxTerms)
      IsNamed(t) == t[1] \in Uppers \/ IsUpperStr(t)
      named == SelectSeq(terms, IsNamed)
      NotNamed(t) == \A i \in 1..Len(named) : named[i] # t
      others == SelectSeq(terms, NotNamed)
      core == Take(named \o others, MaxTerms)
      head == Take(core, 3)
      Long(t) == Len(t) >= 3
      tail == Take(SelectSeq(Drop(core, 3), Long), 3)
      filters == IF Sourcelang # <<>>
                 THEN << <<"s", "o", "u", "r", "c", "e", "l", "a", "n", "g", ":">> \o Sourcelang >>
                 ELSE <<>>
      near == Strip(<<"n", "e", "a", "r">> \o IntToStr(NearK) \o <<":">> \o _quote(head)
                    \o <<" ">> \o Join(tail \o filters, <<" ">>))
      phrase == Strip(_quote(Take(head, 2)) \o <<" ">> \o Join(Take(tail, 2) \o filters, <<" ">>))
      bag == Strip(Join(SelectSeq(core, Long) \o filters, <<" ">>))
      variants == (IF head # <<>> THEN <<near>> ELSE <<>>)
                  \o (IF Len(head) >= 2 THEN <<phrase>> ELSE <<>>)
                  \o <<bag>>
  IN IF terms = <<>> THEN <<>> ELSE DedupClean(variants, {}, <<>>)

(***************************************************************************)
(* _retry_fix_query (search_engines.py 170-189).                           *)
(***************************************************************************)
RECURSIVE SpanDigits(_, _)
\* The first index at or after i of q that holds no digit (\d+).
SpanDigits(q, i) ==
  IF i <= Len(q) /\ q[i] \in Digits THEN SpanDigits(q, i + 1) ELSE i

RECURSIVE SpanNonQuote(_, _)
\* The first index at or after i of q that holds a double quote ([^"]+).
SpanNonQuote(q, i) ==
  IF i <= Len(q) /\ q[i] # DQ THEN SpanNonQuote(q, i + 1) ELSE i

RECURSIVE SpanSpace(_, _)
\* The first index at or after i of q that holds no whitespace (\s*).
SpanSpace(q, i) ==
  IF i <= Len(q) /\ IsSpace(q[i]) THEN SpanSpace(q, i + 1) ELSE i

\* A match of \bnear\d+:"[^"]+"\s* that starts at index i of q: the index
\* after its last character, or 0 when the pattern does not match there.
NearAt(q, i) ==
  LET n == Len(q)
      d == SpanDigits(q, i + 4)
      c == SpanNonQuote(q, d + 2)
  IN IF /\ i + 3 <= n
        /\ q[i] = "n" /\ q[i + 1] = "e" /\ q[i + 2] = "a" /\ q[i + 3] = "r"
        /\ (i = 1 \/ ~IsWord(q[i - 1]))
        /\ d > i + 4
        /\ d + 1 <= n
        /\ q[d] = ":" /\ q[d + 1] = DQ
        /\ c > d + 2
        /\ c <= n
        /\ q[c] = DQ
     THEN SpanSpace(q, c + 1)
     ELSE 0

RECURSIVE NearSubFrom(_, _)
NearSubFrom(q, i) ==
  IF i > Len(q) THEN <<>>
  ELSE LET e == NearAt(q, i)
       IN IF e # 0 THEN NearSubFrom(q, e) ELSE <<q[i]>> \o NearSubFrom(q, i + 1)

\* re.sub(r'\bnear\d+:"[^"]+"\s*', '', q).strip()
RewriteNear(q) == Strip(NearSubFrom(q, 1))

\* The condition line 181 keeps a token on: quoted, or 3 characters or more.
KeepToken(t) == IsQuoted(t) \/ Len(t) >= 3

RECURSIVE KeepTokens(_)
\* [t for t in toks if KeepToken(t)]
KeepTokens(toks) ==
  IF toks = <<>> THEN <<>>
  ELSE (IF KeepToken(Head(toks)) THEN <<Head(toks)>> ELSE <<>>)
       \o KeepTokens(Tail(toks))

\* " ".join(toks).strip() over the kept tokens of q.split()
RewriteShort(q) == Strip(Join(KeepTokens(Split(q)), <<" ">>))

\* f"\"{q}\""
RewriteWrap(q) == <<DQ>> \o q \o <<DQ>>

\* `x or None`
OrNone(x) == IF x = <<>> THEN NoneVal ELSE x

\* The signatures _retry_fix_query looks for in the lower-cased head:
\*   "near"    : "invalid near" or "near search"
\*   "short"   : "too short"
\*   "illegal" : "illegal character"
\* A head is modelled by the set of signatures that occur in it.
Signatures == {"near", "short", "illegal"}

\* _retry_fix_query without the "not already quoted" test of line 186.
_retry_fix_query_rewrap(q, sigs) ==
  IF "near" \in sigs THEN OrNone(RewriteNear(q))
  ELSE IF "short" \in sigs THEN OrNone(RewriteShort(q))
  ELSE IF "illegal" \in sigs THEN RewriteWrap(q)
  ELSE NoneVal

\* _retry_fix_query that goes on to the next signature when a rewrite gives
\* nothing new.
_retry_fix_query_next(q, sigs) ==
  IF "near" \in sigs /\ RewriteNear(q) \notin {<<>>, q} THEN RewriteNear(q)
  ELSE IF "short" \in sigs /\ RewriteShort(q) \notin {<<>>, q} THEN RewriteShort(q)
  ELSE IF "illegal" \in sigs /\ ~IsQuoted(q) THEN RewriteWrap(q)
  ELSE NoneVal

_retry_fix_query(q, sigs) ==
  IF "near" \in sigs THEN OrNone(RewriteNear(q))
  ELSE IF "short" \in sigs THEN OrNone(RewriteShort(q))
  ELSE IF "illegal" \in sigs /\ ~IsQuoted(q) THEN RewriteWrap(q)
  ELSE NoneVal

(***************************************************************************)
(* _gdelt_fmt (search_engines.py 192-209).                                 *)
(***************************************************************************)
\* A datetime object is modelled by the marker "<datetime>" followed by the
\* 14 digits strftime("%Y%m%d%H%M%S") gives for it.
IsDatetime(x) == x # <<>> /\ x[1] = "<datetime>"

AllDigits(s) == \A i \in 1..Len(s) : s[i] \in Digits

\* re.fullmatch(r"\d{4}-\d{2}-\d{2}", s)
IsIsoDate(s) ==
  /\ Len(s) = 10
  /\ AllDigits(SubSeq(s, 1, 4)) /\ s[5] = "-"
  /\ AllDigits(SubSeq(s, 6, 7)) /\ s[8] = "-"
  /\ AllDigits(SubSeq(s, 9, 10))

Zeros6 == <<"0", "0", "0", "0", "0", "0">>

\* _gdelt_fmt passing an unsupported string on instead of raising.
_gdelt_fmt_lenient(dtobj) ==
  IF IsDatetime(dtobj) THEN Tail(dtobj)
  ELSE LET s == Strip(dtobj)
       IN IF Len(s) = 8 /\ AllDigits(s) THEN s \o Zeros6
          ELSE IF IsIsoDate(s)
               THEN SubSeq(s, 1, 4) \o SubSeq(s, 6, 7) \o SubSeq(s, 9, 10) \o Zeros6
          ELSE s

\* The 14-digit timestamp, or ValueError when line 209 raises.
_gdelt_fmt(dtobj) ==
  IF IsDatetime(dtobj) THEN Tail(dtobj)
  ELSE LET s == Strip(dtobj)
       IN IF Len(s) = 14 /\ AllDigits(s) THEN s
          ELSE IF Len(s) = 8 /\ AllDigits(s) THEN s \o Zeros6
          ELSE IF IsIsoDate(s)
               THEN SubSeq(s, 1, 4) \o SubSeq(s, 6, 7) \o SubSeq(s, 9, 10) \o Zeros6
          ELSE ValueError

(***************************************************************************)
(* search_gdelt_single (search_engines.py 212-264).                        *)
(***************************************************************************)
\* DEFAULTS["gdelt"]["limit"], ["timespan"]; the ceiling of maxrecords.
GdeltLimit == 10
GdeltTimespan == <<"30d">>
MaxRecordsCeiling == 250

\* Lines 237-241: the first _gdelt_fmt that raises ends the call.
DatesRaise(start, end) ==
  \/ Truthy(start) /\ _gdelt_fmt(start) = ValueError
  \/ Truthy(end) /\ _gdelt_fmt(end) = ValueError

\* BuildParams setting the timespan whether or not a window is given.
BuildParams_both(query, max_results, start, end, timespan) ==
  [query |-> query,
   maxrecords |-> Max(1, Min(max_results, MaxRecordsCeiling)),
   STARTDATETIME |-> IF Truthy(start) THEN _gdelt_fmt(start) ELSE Absent,
   ENDDATETIME |-> IF Truthy(end) THEN _gdelt_fmt(end) ELSE Absent,
   timespan |-> IF timespan = NoneVal THEN GdeltTimespan ELSE timespan]

\* Lines 228-243: the params dict of one request (mode, format and sort are
\* constants and left out).
BuildParams(query, max_results, start, end, timespan) ==
  LET window == Truthy(start) \/ Truthy(end)
  IN [query |-> query,
      maxrecords |-> Max(1, Min(max_results, MaxRecordsCeiling)),
      STARTDATETIME |-> IF Truthy(start) THEN _gdelt_fmt(start) ELSE Absent,
      ENDDATETIME |-> IF Truthy(end) THEN _gdelt_fmt(end) ELSE Absent,
      timespan |-> IF window THEN Absent
                   ELSE IF timespan = NoneVal THEN GdeltTimespan ELSE timespan]

\* URLs are strings too.  U_seed is the URL a crawl starts from, U_echo a
\* longer URL that contains it, U_other and U_more unrelated ones; NoUrl is
\* the empty string (or None) of a hit that carries no URL.
U_seed == <<"s">>
U_echo == <<"s", "/", "e">>
U_other == <<"o">>
NoUrl == <<>>
Urls == {U_seed, U_echo, U_other}

\* What the backend can answer to one request.
\*   transport  : requests.get raises (connection error, timeout)
\*   http_error : a 4xx/5xx status, raise_for_status raises; sigs is what
\*                the head of its body would show
\*   nonjson    : an answer whose content type is not JSON; sigs are the
\*                signatures in the first 240 characters of its body
\*   badjson    : content type JSON, but r.json() or the shape of the
\*                payload raises
\*   json       : articles holds the "url" of each article, NoUrl when the
\*                article has none
\* status is the class of the HTTP status: raise_for_status raises for
\* "4xx5xx" alone, so an answer that gets past it is "2xx" or "3xx" (a
\* final 1xx/3xx answer).  The "3xx" answers are the error pages and one
\* JSON payload.
MaxArticles == 2
ArticleLists == UNION {[1..n -> Urls \cup {NoUrl}] : n \in 0..MaxArticles}
Response(kind, status, sigs, articles) ==
  [kind |-> kind, status |-> status, sigs |-> sigs, articles |-> articles]
PassingStatuses == {"2xx", "3xx"}
Responses ==
  {Response("transport", "none", {}, <<>>), Response("badjson", "2xx", {}, <<>>)}
  \cup {Response("http_error", "4xx5xx", s, <<>>) : s \in {{}, Signatures}}
  \cup {Response("nonjson", st, s, <<>>) : st \in PassingStatuses, s \in SUBSET Signatures}
  \cup {Response("json", "2xx", {}, a) : a \in ArticleLists}
  \cup {Response("json", "3xx", {}, <<U_other>>)}

NoResponse == [resp |-> Response("none", "none", {}, <<>>), query |-> <<>>]

RECURSIVE TruthyUrls(_)
\* [a.get("url") for a in arts if a.get("url")]
TruthyUrls(arts) ==
  IF arts = <<>> THEN <<>>
  ELSE (IF Truthy(Head(arts)) THEN <<Head(arts)>> ELSE <<>>) \o TruthyUrls(Tail(arts))

\* Line 254 without `fixed != query`.
ShouldRetry_any(fixed, query) == Truthy(fixed)

\* Line 254: `if fixed and fixed != query`
ShouldRetry(fixed, query) == Truthy(fixed) /\ fixed # query

\* One more network operation since the last sleep.
NetOp(n) == Min(n + 1, 2)

\* Function entry up to requests.get: build the params, raising on a bad
\* date, and send the request.
search_gdelt_single_send ==
  /\ sstat = "ready"
  /\ IF DatesRaise(sstart, send)
     THEN /\ sstat' = "raised"
          /\ UNCHANGED sreqs
          /\ UNCHANGED cnet
     ELSE /\ sstat' = "sent"
          /\ sreqs' = Append(sreqs, BuildParams(sq, smax, sstart, send, sspan))
          /\ cnet' = NetOp(cnet)
  /\ UNCHANGED <<entry, ovars, sq0, sq, smax, sstart, send, sspan, slast, sret,
                 vvars, dvars, gvars, cvars>>

\* Lines 246-264 on the answer resp: return a list, or call itself with the
\* repaired query (the recursive call is the `return` of line 255, so the
\* outer frame does nothing more).
HandleResponse(resp) ==
  /\ slast' = [resp |-> resp, query |-> sq]
  /\ IF resp.kind = "json"
     THEN sstat' = "returned" /\ sret' = TruthyUrls(resp.articles) /\ sq' = sq
     ELSE IF resp.kind = "nonjson" /\ ShouldRetry(_retry_fix_query(sq, resp.sigs), sq)
     THEN sstat' = "ready" /\ sq' = _retry_fix_query(sq, resp.sigs) /\ sret' = sret
     ELSE sstat' = "returned" /\ sret' = <<>> /\ sq' = sq

search_gdelt_single_receive ==
  /\ sstat = "sent"
  /\ \E resp \in Responses : HandleResponse(resp)
  /\ UNCHANGED <<entry, ovars, sq0, smax, sstart, send, sspan, sreqs,
                 vvars, dvars, gvars, cvars, cnet>>

(***************************************************************************)
(* search_gdelt_variants (search_engines.py 267-291).                      *)
(***************************************************************************)
\* Line 286 without `u not in seen`.
IsNewUrl_unseen(u, seen) == Truthy(u)

\* Line 286: `if u and u not in seen`
IsNewUrl(u, seen) == Truthy(u) /\ u \notin seen

RECURSIVE Accumulate(_, _, _, _)
\* Lines 285-290 over the hits of one variant: the urls and seen it leaves,
\* and whether line 290 returned (full).
Accumulate(hits, urls, seen, limit) ==
  IF hits = <<>> THEN [urls |-> urls, seen |-> seen, full |-> FALSE]
  ELSE LET u == Head(hits)
           urls2 == IF IsNewUrl(u, seen) THEN Append(urls, u) ELSE urls
           seen2 == IF IsNewUrl(u, seen) THEN seen \cup {u} ELSE seen
       IN IF Len(urls2) >= limit
          THEN [urls |-> urls2, seen |-> seen2, full |-> TRUE]
          ELSE Accumulate(Tail(hits), urls2, seen2, limit)

\* Line 284: the call of search_gdelt_single for the query q.
CallSingle(q, max_results, start, end, timespan) ==
  /\ sq0' = q
  /\ sq' = q
  /\ smax' = max_results
  /\ sstart' = start
  /\ send' = end
  /\ sspan' = timespan
  /\ sstat' = "ready"
  /\ sreqs' = <<>>
  /\ slast' = NoResponse
  /\ sret' = <<>>

\* The variables of search_gdelt_single when no call of it is in progress.
SingleIdle ==
  /\ sq0 = <<>> /\ sq = <<>> /\ smax = 0
  /\ sstart = NoneVal /\ send = NoneVal /\ sspan = NoneVal
  /\ sstat = "idle" /\ sreqs = <<>> /\ slast = NoResponse /\ sret = <<>>

\* Lines 277-284: build the variants and call search_gdelt_single for the
\* first one, or return [] when there is none.
search_gdelt_variants_call ==
  /\ vstat = "ready"
  /\ vqueries' = build_gdelt_queries(vsentence)
  /\ vurls' = <<>>
  /\ vseen' = {}
  /\ IF vqueries' = <<>>
     THEN /\ vstat' = "returned" /\ vret' = <<>> /\ vidx' = 0
          /\ UNCHANGED svars
     ELSE /\ vstat' = "waiting" /\ vret' = vret /\ vidx' = 1
          /\ CallSingle(vqueries'[1], vlimit, vstart, vend,
                        IF vspan = NoneVal THEN GdeltTimespan ELSE vspan)
  /\ UNCHANGED <<entry, ovars, vsentence, vlimit, vstart, vend, vspan,
                 dvars, gvars, cvars, cnet>>

\* Lines 284-291 once search_gdelt_single is back: an error it raised
\* passes through; else its hits are accumulated, and the function returns
\* (limit reached, or no variant left) or calls it for the next variant.
search_gdelt_variants_resume ==
  /\ vstat = "waiting"
  /\ sstat \in {"returned", "raised"}
  /\ IF sstat = "raised"
     THEN /\ vstat' = "raised"
          /\ UNCHANGED <<svars, vidx, vurls, vseen, vret>>
     ELSE LET acc == Accumulate(sret, vurls, vseen, vlimit)
          IN /\ vurls' = acc.urls
             /\ vseen' = acc.seen
             /\ IF acc.full \/ vidx = Len(vqueries)
                THEN /\ vstat' = "returned" /\ vret' = acc.urls /\ vidx' = vidx
                     /\ sstat' = "idle"
                     /\ UNCHANGED <<sq0, sq, smax, sstart, send, sspan, sreqs, slast, sret>>
                ELSE /\ vstat' = "waiting" /\ vret' = vret /\ vidx' = vidx + 1
                     /\ CallSingle(vqueries[vidx + 1], vlimit, vstart, vend,
                                   IF vspan = NoneVal THEN GdeltTimespan ELSE vspan)
  /\ UNCHANGED <<entry, ovars, vsentence, vlimit, vstart, vend, vspan, vqueries,
                 dvars, gvars, cvars, cnet>>

\* The variables of search_gdelt_variants when no call of it is in progress.
VariantsIdle ==
  /\ vsentence = <<>> /\ vlimit = 0
  /\ vstart = NoneVal /\ vend = NoneVal /\ vspan = NoneVal
  /\ vqueries = <<>> /\ vidx = 0 /\ vurls = <<>> /\ vseen = {}
  /\ vstat = "idle" /\ vret = <<>>

(***************************************************************************)
(* search_duckduckgo (search_engines.py 37-54).                            *)
(***************************************************************************)
\* DEFAULTS["duckduckgo"]["max_results"]
DdgMaxResults == 10

\* What requests.post and BeautifulSoup can give.
\*   transport   : requests.post raises
\*   parse_error : BeautifulSoup raises on the body (no parser, bad markup)
\*   page        : anchors holds the href of each a.result__a of the body in
\*                 document order, NoUrl for an anchor without href
\* status is the class of the HTTP status, which the function never reads.
AnchorLists == ArticleLists
DdgResponse(kind, status, anchors) == [kind |-> kind, status |-> status, anchors |-> anchors]
DdgResponses ==
  {DdgResponse("transport", "none", <<>>)}
  \cup {DdgResponse("parse_error", st, <<>>) : st \in {"2xx", "non2xx"}}
  \cup {DdgResponse("page", st, a) : st \in {"2xx", "non2xx"}, a \in AnchorLists}
NoDdgResponse == DdgResponse("none", "none", <<>>)

RECURSIVE DdgCollect(_, _, _)
\* Lines 46-51: the loop over the anchors, which tests the length after the
\* append.
DdgCollect(anchors, results, max_results) ==
  IF anchors = <<>> THEN results
  ELSE LET r2 == IF Truthy(Head(anchors)) THEN Append(results, Head(anchors)) ELSE results
       IN IF Len(r2) >= max_results THEN r2
          ELSE DdgCollect(Tail(anchors), r2, max_results)

\* Lines 39-54: the list returned for the answer resp; an exception leaves
\* results as it is, which is empty before the loop.
DdgResults(resp, max_results) ==
  IF resp.kind = "page" THEN DdgCollect(resp.anchors, <<>>, max_results) ELSE <<>>

search_duckduckgo ==
  /\ dstat = "ready"
  /\ \E resp \in DdgResponses :
       /\ dlast' = resp
       /\ dret' = DdgResults(resp, dmax)
  /\ dstat' = "returned"
  /\ cnet' = NetOp(cnet)
  /\ UNCHANGED <<entry, ovars, dq, dmax, svars, vvars, gvars, cvars>>

\* The variables of search_duckduckgo when no call of it is in progress.
DdgIdle ==
  dq = <<>> /\ dmax = 0 /\ dstat = "idle" /\ dlast = NoDdgResponse /\ dret = <<>>

(***************************************************************************)
(* search_google_cse (search_engines.py 57-67).                            *)
(***************************************************************************)
\* DEFAULTS["google"]["num"]
GoogleNum == 10

\* An item of the payload that has no 'link' key.
NoLink == <<"<KeyError>">>

\* What the Google client can give.
\*   unavailable : the import or build() raises, nothing is sent
\*   transport   : execute() raises on the connection
\*   http_error  : a non-2xx status, execute() raises HttpError
\*   badpayload  : the body is not the JSON the client expects, execute() raises
\*   ok          : items holds the 'link' of each item (NoLink when the item
\*                 has none); <<>> also stands for a payload without 'items'
ItemLists == UNION {[1..n -> Urls \cup {NoLink}] : n \in 0..MaxArticles}
GoogleResponse(kind, items) == [kind |-> kind, items |-> items]
GoogleResponses ==
  {GoogleResponse(k, <<>>) : k \in {"unavailable", "transport", "http_error", "badpayload"}}
  \cup {GoogleResponse("ok", i) : i \in ItemLists}
NoGoogleResponse == GoogleResponse("none", <<>>)

\* Lines 59-67: the list returned for the answer resp; item['link'] raises
\* KeyError for an item without link, and every exception gives [].
GoogleResults(resp) ==
  IF resp.kind = "ok" /\ \A i \in 1..Len(resp.items) : resp.items[i] # NoLink
  THEN resp.items
  ELSE <<>>

search_google_cse ==
  /\ gstat = "ready"
  /\ \E resp \in GoogleResponses :
       /\ glast' = resp
       /\ gret' = GoogleResults(resp)
       /\ cnet' = IF resp.kind = "unavailable" THEN cnet ELSE NetOp(cnet)
  /\ gstat' = "returned"
  /\ UNCHANGED <<entry, ovars, gq, gnum, svars, vvars, dvars, cvars>>

\* The variables of search_google_cse when no call of it is in progress.
GoogleIdle ==
  gq = <<>> /\ gnum = 0 /\ gstat = "idle" /\ glast = NoGoogleResponse /\ gret = <<>>

(***************************************************************************)
(* crawl_and_compare (echo_spider.py 88-179).                              *)
(***************************************************************************)
Engines == {"gdelt", "duckduckgo", "google"}

\* The number of times a function is called with the same arguments.
MaxCalls == 2

\* echo_spider.DEFAULTS: similarity_threshold (0.80) in ten-thousandths,
\* get_top_sentences n and max_words; the literals of lines 60, 158, 169.
SimilarityThreshold == 8000
TopN == 5
MaxSnippetWords == 20
MinFragmentLen == 25
MinCandidateLen == 100
SnippetLen == 500

\* str.split(ch): the pieces between the occurrences of ch, empty ones kept.
\* The j-th piece runs from after the (j-1)-th occurrence of ch to before
\* the j-th one.
SplitAt(s, ch) ==
  LET at == {i \in 1..Len(s) : s[i] = ch}
      Nth(j) == IF j = 0 THEN 0
                ELSE IF j > Cardinality(at) THEN Len(s) + 1
                ELSE CHOOSE i \in at : Cardinality({d \in at : d < i}) = j - 1
  IN [j \in 1..(Cardinality(at) + 1) |-> SubSeq(s, Nth(j - 1) + 1, Nth(j) - 1)]

RECURSIVE MapStrip(_)
MapStrip(parts) ==
  IF parts = <<>> THEN <<>> ELSE <<Strip(Head(parts))>> \o MapStrip(Tail(parts))

RECURSIVE ReplaceQuotes(_)
\* Lines 65-71: straight and curly double quotes are removed, curly single
\* quotes ("rsquo", "lsquo") become the apostrophe.
ReplaceQuotes(s) ==
  IF s = <<>> THEN <<>>
  ELSE LET c == Head(s)
       IN (IF c \in {DQ, "ldquo", "rdquo"} THEN <<>>
           ELSE IF c \in {"rsquo", "lsquo"} THEN <<"'">>
           ELSE <<c>>) \o ReplaceQuotes(Tail(s))

\* Lines 72-74: one snippet.
Snippet(s, max_words) ==
  LET words == Split(ReplaceQuotes(s))
  IN <<DQ>> \o Join(Take(words, max_words), <<" ">>) \o <<DQ>>

RECURSIVE MapSnippet(_, _)
MapSnippet(ss, max_words) ==
  IF ss = <<>> THEN <<>>
  ELSE <<Snippet(Head(ss), max_words)>> \o MapSnippet(Tail(ss), max_words)

\* get_top_sentences keeping the fragments of MinFragmentLen characters too.
get_top_sentences_ge(text, n, max_words) ==
  LET LongEnough(f) == Len(f) >= MinFragmentLen
      sentences == SelectSeq(MapStrip(SplitAt(text, ".")), LongEnough)
  IN MapSnippet(Take(sentences, n), max_words)

\* get_top_sentences (lines 53-76) for n >= 0 and max_words >= 0.
get_top_sentences_with(text, n, max_words) ==
  LET LongEnough(f) == Len(f) > MinFragmentLen
      sentences == SelectSeq(MapStrip(SplitAt(text, ".")), LongEnough)
  IN MapSnippet(Take(sentences, n), max_words)

\* get_top_sentences with the default n and max_words, as crawl_and_compare
\* calls it.
get_top_sentences(text) == get_top_sentences_with(text, TopN, MaxSnippetWords)

\* A call of get_top_sentences(text, n, max_words), lines 53-76.
get_top_sentences_call ==
  /\ entry = "top_sentences"
  /\ tcalls < MaxCalls
  /\ tcalls' = tcalls + 1
  /\ tprev' = tret
  /\ tret' = get_top_sentences_with(ttext, tn, tmaxw)
  /\ UNCHANGED <<entry, svars, vvars, dvars, gvars, cvars, cnet, tfrags, ttext, tn, tmaxw,
                 rvars, avars, evars>>

\* The variables of get_top_sentences when it is not called on its own.
TopIdle ==
  /\ tfrags = <<>> /\ ttext = <<>> /\ tn = 0 /\ tmaxw = 0
  /\ tcalls = 0 /\ tprev = <<>> /\ tret = <<>>

(***************************************************************************)
(* ContentReuseAnalyzer (scripts/trace_content_reuse.py).                  *)
(***************************************************************************)
\* A snippet can be longer than the 1000 characters that are hashed, so a
\* snippet is kept run-length encoded: a sequence of runs of n >= 1 times
\* the character c, two neighbouring runs having different characters.
Run(c, n) == [c |-> c, n |-> n]

\* The literals of lines 33, 64 and 73.
HashPrefixLen == 1000
RepresentativeLen == 200
SourceSnippetLen == 1000

RECURSIVE TextLen(_)
TextLen(t) == IF t = <<>> THEN 0 ELSE Head(t).n + TextLen(Tail(t))

RECURSIVE Slice(_, _)
\* text[:k]
Slice(t, k) ==
  IF t = <<>> \/ k <= 0 THEN <<>>
  ELSE IF Head(t).n >= k THEN <<Run(Head(t).c, k)>>
  ELSE <<Head(t)>> \o Slice(Tail(t), k - Head(t).n)

RECURSIVE StripText(_)
\* text.strip()
StripText(t) ==
  IF t # <<>> /\ IsSpace(Head(t).c) THEN StripText(Tail(t))
  ELSE IF t # <<>> /\ IsSpace(t[Len(t)].c) THEN StripText(SubSeq(t, 1, Len(t) - 1))
  ELSE t

\* generate_content_hash without the slice.
generate_content_hash_whole(text) == [sha256 |-> text]

\* generate_content_hash (lines 30-33).  SHA-256 is taken as free of
\* collisions: a digest is modelled by the text that was digested.
generate_content_hash(text) == [sha256 |-> Slice(text, HashPrefixLen)]

\* The first index of the character ch in s at or after i, Len(s) + 1 when
\* there is none.
FindChar(s, chs, i) ==
  IF \E k \in i..Len(s) : s[k] \in chs
  THEN CHOOSE k \in i..Len(s) : s[k] \in chs /\ \A j \in i..(k - 1) : s[j] \notin chs
  ELSE Len(s) + 1

\* urlparse(url).netloc for the URLs of the model: what follows the "//"
\* that opens the URL or comes right after its "scheme:", up to the next
\* "/", "?" or "#".
Netloc(url) ==
  LET colon == FindChar(url, {":"}, 1)
      start == IF Len(url) >= 2 /\ url[1] = "/" /\ url[2] = "/" THEN 3
               ELSE IF colon + 2 <= Len(url) /\ url[colon + 1] = "/" /\ url[colon + 2] = "/"
                       /\ \A k \in 1..(colon - 1) : IsAlnum(url[k])
               THEN colon + 3
               ELSE 0
  IN IF start = 0 THEN <<>>
     ELSE SubSeq(url, start, FindChar(url, {"/", "?", "#"}, start) - 1)

\* normalize_domain (lines 21-28).
normalize_domain(url) ==
  LET netloc == Lower(Netloc(url))
  IN IF Len(netloc) >= 4 /\ SubSeq(netloc, 1, 4) = <<"w", "w", "w", ".">>
     THEN Drop(netloc, 4)
     ELSE netloc

\* An entry of a match file: a JSON object whose keys may be missing.
\* Missing is the absence of the key.
Missing == <<"<missing>">>
Entry(snippet, source, url, label) ==
  [snippet |-> snippet, source |-> source, url |-> url, label |-> label]
Unclassified == <<"u", "n", "c", "l", "a", "s", "s", "i", "f", "i", "e", "d">>

\* A file of the input directory: its name, and the list json.load gives,
\* or parses |-> FALSE when json.load raises JSONDecodeError.
InputFile(name, parses, entries) == [name |-> name, parses |-> parses, entries |-> entries]

\* process_file (lines 35-42).
process_file(file) == IF file.parses THEN file.entries ELSE <<>>

\* Line 55: entry.get("snippet", "").strip()
SnippetOf(e) == IF e.snippet = Missing THEN <<>> ELSE StripText(e.snippet)

\* The index in reuse_map of the group of content_hash, 0 when there is none.
GroupIndex(map, content_hash) ==
  IF \E i \in 1..Len(map) : map[i].hash = content_hash
  THEN CHOOSE i \in 1..Len(map) : map[i].hash = content_hash
  ELSE 0

\* Lines 68-74: the source record of an entry.
SourceRecord(e, snippet, crawl_file) ==
  [domain |-> normalize_domain(e.source),
   url |-> e.source,
   label |-> IF e.label = Missing THEN Unclassified ELSE e.label,
   crawl_file |-> crawl_file,
   snippet |-> Slice(snippet, SourceSnippetLen)]

\* AddEntry that passes over an entry whose URL its group already holds.
AddEntry_dedup(map, e, snippet, crawl_file) ==
  LET content_hash == generate_content_hash(snippet)
      g == GroupIndex(map, content_hash)
      rec == SourceRecord(e, snippet, crawl_file)
  IN IF g = 0
     THEN Append(map, [hash |-> content_hash,
                       representative_snippet |-> Slice(snippet, RepresentativeLen),
                       sources |-> <<rec>>])
     ELSE IF \E j \in 1..Len(map[g].sources) : map[g].sources[j].url = e.source
     THEN map
     ELSE [map EXCEPT ![g].sources = Append(@, rec)]

\* AddEntry that puts the new source first.
AddEntry_prepend(map, e, snippet, crawl_file) ==
  LET content_hash == generate_content_hash(snippet)
      g == GroupIndex(map, content_hash)
      rec == SourceRecord(e, snippet, crawl_file)
  IN IF g = 0
     THEN Append(map, [hash |-> content_hash,
                       representative_snippet |-> Slice(snippet, RepresentativeLen),
                       sources |-> <<rec>>])
     ELSE [map EXCEPT ![g].sources = <<rec>> \o @]

\* Lines 59-74: reuse_map after an entry with a non-empty snippet.
AddEntry(map, e, snippet, crawl_file) ==
  LET content_hash == generate_content_hash(snippet)
      map2 == IF GroupIndex(map, content_hash) = 0
              THEN Append(map, [hash |-> content_hash,
                                representative_snippet |-> Slice(snippet, RepresentativeLen),
                                sources |-> <<>>])
              ELSE map
      g == GroupIndex(map2, content_hash)
  IN [map2 EXCEPT ![g].sources = Append(@, SourceRecord(e, snippet, crawl_file))]

RECURSIVE ScanEntries(_, _, _)
\* Lines 54-74 as a function: the map after the entries es of the file
\* crawl_file, and whether entry["source"] raised on the way.
ScanEntries(out, es, crawl_file) ==
  IF es = <<>> \/ out.raised THEN out
  ELSE LET e == Head(es)
           snippet == SnippetOf(e)
       IN IF snippet = <<>> THEN ScanEntries(out, Tail(es), crawl_file)
          ELSE IF e.source = Missing THEN [out EXCEPT !.raised = TRUE]
          ELSE ScanEntries([out EXCEPT !.map = AddEntry(@, e, snippet, crawl_file)],
                           Tail(es), crawl_file)

RECURSIVE ScanFiles(_, _)
ScanFiles(out, fs) ==
  IF fs = <<>> \/ out.raised THEN out
  ELSE ScanFiles(ScanEntries(out, process_file(Head(fs)), Head(fs).name), Tail(fs))

\* build_reuse_map (lines 44-76) as a function of the files glob() gives.
build_reuse_map(fs) == ScanFiles([raised |-> FALSE, map |-> <<>>], fs)

\* build_reuse_map_file that lets the error of a file that does not parse
\* through.
build_reuse_map_file_raises ==
  /\ rstat = "files"
  /\ IF rfi = Len(rfiles)
     THEN /\ rstat' = "returned"
          /\ UNCHANGED <<rfi, rentries, rei>>
     ELSE /\ rfi' = rfi + 1
          /\ rei' = 0
          /\ rentries' = process_file(rfiles[rfi + 1])
          /\ rstat' = IF ~rfiles[rfi + 1].parses THEN "raised"
                      ELSE IF rentries' = <<>> THEN "files" ELSE "entries"
  /\ UNCHANGED <<entry, svars, vvars, dvars, gvars, cvars, cnet, tvars, avars, evars, rfiles, rmap>>

\* Lines 49-52: take the next file; one that does not parse or is empty is
\* passed over.  After the last file the map is returned (line 76).
build_reuse_map_file ==
  /\ rstat = "files"
  /\ IF rfi = Len(rfiles)
     THEN /\ rstat' = "returned"
          /\ UNCHANGED <<rfi, rentries, rei>>
     ELSE /\ rfi' = rfi + 1
          /\ rei' = 0
          /\ rentries' = process_file(rfiles[rfi + 1])
          /\ rstat' = IF rentries' = <<>> THEN "files" ELSE "entries"
  /\ UNCHANGED <<entry, svars, vvars, dvars, gvars, cvars, cnet, tvars, avars, evars, rfiles, rmap>>

\* Lines 54-74: the loop body for the next entry.  entry["source"] raises
\* KeyError when the key is missing.
build_reuse_map_entry ==
  /\ rstat = "entries"
  /\ LET e == rentries[rei + 1]
         snippet == SnippetOf(e)
     IN IF snippet = <<>>
        THEN /\ rmap' = rmap
             /\ rei' = rei + 1
             /\ rstat' = IF rei + 1 = Len(rentries) THEN "files" ELSE "entries"
        ELSE IF e.source = Missing
        THEN /\ rstat' = "raised"
             /\ UNCHANGED <<rmap, rei>>
        ELSE /\ rmap' = AddEntry(rmap, e, snippet, rfiles[rfi].name)
             /\ rei' = rei + 1
             /\ rstat' = IF rei + 1 = Len(rentries) THEN "files" ELSE "entries"
  /\ UNCHANGED <<entry, svars, vvars, dvars, gvars, cvars, cnet, tvars, avars, evars, rfiles, rfi, rentries>>

\* The variables of build_reuse_map when it is not running.
ReuseIdle ==
  /\ rfiles = <<>> /\ rfi = 0 /\ rentries = <<>> /\ rei = 0
  /\ rmap = <<>> /\ rstat = "idle"

(***************************************************************************)
(* detect_anomalies (scripts/detect_reuse_anomalies.py).                   *)
(***************************************************************************)
\* dict.get(key, default), a dict being a function on its keys.
Get(d, key, default) == IF key \in DOMAIN d THEN d[key] ELSE default

\* A source of a group, as far as detect_anomalies reads it, and the label
\* build_reuse_map stored in it.
Item(domain, label) == [domain |-> domain, label |-> label]

\* A group of the reuse map under its content hash; keyed tells whether it
\* has a "sources" key.
Group(content_hash, keyed, sources) ==
  [hash |-> content_hash, keyed |-> keyed, sources |-> sources]

\* Line 30: group.get("sources", [])
SourcesOf(group) == IF group.keyed THEN group.sources ELSE <<>>

\* The label read from the source itself.
LabelOf_stored(item, domain_labels) == item.label

\* Lines 35, 43 and 52: domain_labels.get(domain, "unclassified")
LabelOf(item, domain_labels) == Get(domain_labels, item.domain, Unclassified)

\* Line 38: the keys of label_groups.
LabelsUsed(sources, domain_labels) ==
  {LabelOf(sources[i], domain_labels) : i \in 1..Len(sources)}

\* Lines 40-46.
AnomalyInfo(group, domain_labels) ==
  LET sources == SourcesOf(group)
  IN [content_hash |-> group.hash,
      reused_on |-> [i \in 1..Len(sources) |->
                       [domain |-> sources[i].domain,
                        label |-> LabelOf(sources[i], domain_labels)]]]

NoIssue == "<none>"

\* The rules with the unclassified cluster tried first.
Issue_cluster_first(sources, domain_labels) ==
  IF /\ \A i \in 1..Len(sources) : LabelOf(sources[i], domain_labels) = Unclassified
     /\ Len(sources) >= 3
  THEN "Unclassified cluster reuse"
  ELSE IF Len(sources) >= 2 THEN "High frequency reuse"
  ELSE IF Cardinality(LabelsUsed(sources, domain_labels)) >= 2
  THEN "Cross-ideological reuse"
  ELSE NoIssue

\* The rules with the label diversity tried first.
Issue_labels_first(sources, domain_labels) ==
  IF Cardinality(LabelsUsed(sources, domain_labels)) >= 2
  THEN "Cross-ideological reuse"
  ELSE IF Len(sources) >= 2 THEN "High frequency reuse"
  ELSE IF /\ \A i \in 1..Len(sources) : LabelOf(sources[i], domain_labels) = Unclassified
          /\ Len(sources) >= 3
  THEN "Unclassified cluster reuse"
  ELSE NoIssue

\* Lines 48-54: the issue of a group, NoIssue when no rule matches.
Issue(sources, domain_labels) ==
  IF Len(sources) >= 2 THEN "High frequency reuse"
  ELSE IF Cardinality(LabelsUsed(sources, domain_labels)) >= 2
  THEN "Cross-ideological reuse"
  ELSE IF /\ \A i \in 1..Len(sources) : LabelOf(sources[i], domain_labels) = Unclassified
          /\ Len(sources) >= 3
  THEN "Unclassified cluster reuse"
  ELSE NoIssue

\* The record appended for a group, with the issue NoIssue when none is.
Anomaly(group, domain_labels) ==
  [content_hash |-> group.hash,
   reused_on |-> AnomalyInfo(group, domain_labels).reused_on,
   issue |-> Issue(SourcesOf(group), domain_labels)]

HasIssue(anomaly) == anomaly.issue # NoIssue

RECURSIVE detect_anomalies_all(_, _)
\* detect_anomalies with an `if` for every rule: one record per rule matched.
detect_anomalies_all(reuse_map, domain_labels) ==
  IF reuse_map = <<>> THEN <<>>
  ELSE LET group == Head(reuse_map)
           sources == SourcesOf(group)
           info == AnomalyInfo(group, domain_labels)
           rec(issue) == [content_hash |-> info.content_hash,
                          reused_on |-> info.reused_on, issue |-> issue]
       IN (IF Len(sources) >= 2 THEN <<rec("High frequency reuse")>> ELSE <<>>)
          \o (IF Cardinality(LabelsUsed(sources, domain_labels)) >= 2
              THEN <<rec("Cross-ideological reuse")>> ELSE <<>>)
          \o (IF /\ \A i \in 1..Len(sources) :
                       LabelOf(sources[i], domain_labels) = Unclassified
                 /\ Len(sources) >= 3
              THEN <<rec("Unclassified cluster reuse")>> ELSE <<>>)
          \o detect_anomalies_all(Tail(reuse_map), domain_labels)

\* detect_anomalies (lines 25-56).
detect_anomalies(reuse_map, domain_labels) ==
  SelectSeq([g \in 1..Len(reuse_map) |-> Anomaly(reuse_map[g], domain_labels)], HasIssue)

\* A call of detect_anomalies(reuse_map, domain_labels).  Nothing in lines
\* 25-56 assigns to the arguments or to a name outside the function.
detect_anomalies_call ==
  /\ entry = "detect_anomalies"
  /\ acalls < MaxCalls
  /\ acalls' = acalls + 1
  /\ aprev' = aret
  /\ aret' = detect_anomalies(amap, alabels)
  /\ UNCHANGED <<entry, svars, vvars, dvars, gvars, cvars, cnet, tvars, rvars, evars, amap, alabels>>

\* The variables of detect_anomalies when it is not called.
AnomaliesIdle ==
  /\ amap = <<>> /\ alabels = <<>> /\ acalls = 0 /\ aprev = <<>> /\ aret = <<>>

(***************************************************************************)
(* DomainEnricher._download_cert (scripts/enrich_domains.py).              *)
(***************************************************************************)
\* The defaults of lines 17 and 87, in seconds.
RateLimitDelay == 12
CertTimeout == 15

\* The clock when the DomainEnricher is made: time.time() is far above
\* rate_limit_delay, and last_request_time starts at 0 (line 21).
StartTime == 100

\* The content of a cache file: none, an empty file, or certificate bytes.
NoCacheFile == "<no file>"
EmptyContent == "<empty>"
CertContent == "<der>"
HtmlContent == "<html>"

\* _load_from_cache (lines 60-66): None when there is no file.
_load_from_cache(cache, cert_id) ==
  IF cache[cert_id] = NoCacheFile THEN "<None>" ELSE cache[cert_id]

\* Line 77: `if cached`, true of bytes that are not empty.
CacheHit(cached) == cached \notin {"<None>", EmptyContent}

\* What requests.get of line 87 can give, and after how many seconds: a
\* response with a status and a body, or an exception (a transport error
\* at once or later, a timeout after the 15 seconds).
CertOutcome(kind, content, took) == [kind |-> kind, content |-> content, took |-> took]
CertOutcomes ==
  {CertOutcome("200", c, d) : c \in {CertContent, EmptyContent, HtmlContent}, d \in {0, 1}}
    \cup {CertOutcome("http_error", HtmlContent, d) : d \in {0, 1}}
    \cup {CertOutcome("raises", "<none>", d) : d \in {0, CertTimeout}}

\* Lines 80-83: the time of the request, after the sleep when one is due.
SendTime(now, last_request_time) ==
  IF now - last_request_time < RateLimitDelay
  THEN now + (RateLimitDelay - (now - last_request_time))
  ELSE now

\* last_request_time after the request: line 88 is inside the try, after
\* requests.get, so an exception of requests.get leaves it as it was.
LastRequestTime(last_request_time, sent, out) ==
  IF out.kind = "raises" THEN last_request_time ELSE sent + out.took

\* A call of _download_cert(cert_id) (lines 74-99), gap seconds after the
\* call before it ended.
_download_cert(cert_id, gap, out) ==
  LET cached == _load_from_cache(ecache, cert_id)
      now == enow + gap
      sent == SendTime(now, elast)
  IN /\ ecalls' = ecalls + 1
     /\ IF CacheHit(cached)
        THEN /\ eret' = cached
             /\ enow' = now
             /\ UNCHANGED <<ecache, elast, esends>>
        ELSE /\ esends' = Append(esends, [t |-> sent, cert_id |-> cert_id, kind |-> out.kind])
             /\ enow' = sent + out.took
             /\ elast' = LastRequestTime(elast, sent, out)
             /\ IF out.kind = "200" /\ out.content # HtmlContent
                THEN /\ ecache' = [ecache EXCEPT ![cert_id] = out.content]
                     /\ eret' = out.content
                ELSE /\ ecache' = ecache
                     /\ eret' = "<None>"
     /\ UNCHANGED <<entry, svars, vvars, dvars, gvars, cvars, cnet, tvars, rvars, avars>>

\* The variables of the DomainEnricher when none is made.
EnricherIdle ==
  /\ ecache = <<>> /\ elast = 0 /\ enow = 0 /\ esends = <<>> /\ ecalls = 0 /\ eret = "<None>"

\* The programs that run apart from the crawler are not running.
OthersIdle == TopIdle /\ ReuseIdle /\ AnomaliesIdle /\ EnricherIdle

RECURSIVE StripQuotes(_)
\* str.strip('"')
StripQuotes(s) ==
  IF s # <<>> /\ Head(s) = DQ THEN StripQuotes(Tail(s))
  ELSE IF s # <<>> /\ s[Len(s)] = DQ THEN StripQuotes(SubSeq(s, 1, Len(s) - 1))
  ELSE s

\* Line 154 testing `seed_url == url`.
Contains_equal(url, seed_url) == url = seed_url

\* `seed_url in url`
Contains(url, seed_url) ==
  \E i \in 0..(Len(url) - Len(seed_url)) : SubSeq(url, i + 1, i + Len(seed_url)) = seed_url

\* The text extract_article_text gives for a candidate: the loop reads its
\* length and its first SnippetLen characters only, so a text is a body and
\* a length.  NoText is None.
Text(body, len) == [body |-> body, len |-> len]
NoText == Text("<None>", 0)
Prefix(t, k) == Text(t.body, Min(t.len, k))
CandidateTexts ==
  {NoText, Text("t", 0), Text("t", MinCandidateLen - 1), Text("t", MinCandidateLen),
   Text("t", SnippetLen + 1)}

\* round(score, 3) of a score given in units of 1/20000, in thousandths
\* (ties go to the even neighbour).
Round3(x) ==
  LET q == x \div 20
      m == x % 20
  IN IF m > 10 \/ (m = 10 /\ q % 2 = 1) THEN q + 1 ELSE q

\* detector.is_match (lines 16-24) on the two sub-scores, in ten-thousandths:
\* the comparison is made on the mean itself, the mean is rounded after.
is_match(semantic, fuzzy, threshold) ==
  [match |-> semantic + fuzzy >= 2 * threshold, score |-> Round3(semantic + fuzzy)]

\* The sub-scores the two models can give, or an exception of theirs.
Scores(semantic, fuzzy) == [raises |-> FALSE, semantic |-> semantic, fuzzy |-> fuzzy]
ScoreOutcomes ==
  {Scores(9008, 9000), Scores(7992, 8000), Scores(3000, 4000),
   [raises |-> TRUE, semantic |-> 0, fuzzy |-> 0]}
NoScores == Scores(0, 0)

\* Lines 165-171: one Match record.
Match(url, score, text) ==
  [source |-> url, similarity |-> score, snippet |-> Prefix(text, SnippetLen)]

\* Lines 176-178: the output file of a run, and a file of the directory.
OutFile(engine) == "data/crawled/matches_" \o engine \o ".json"
FileNames == {OutFile(e) : e \in Engines}
File(matches) == [exists |-> TRUE, matches |-> matches]
NoFile == [exists |-> FALSE, matches |-> <<>>]

\* What the loop body did with one result.
\* scores and score are the sub-scores is_match computed and the score it
\* returned, when the result was scored.
Step(url, fetched, text, scored, scores, score, match, appended) ==
  [url |-> url, fetched |-> fetched, text |-> text, scored |-> scored,
   scores |-> scores, score |-> score, match |-> match, appended |-> appended]
NoStep == Step(NoUrl, FALSE, NoText, FALSE, NoScores, 0, FALSE, FALSE)

\* The variables of crawl_and_compare when no run of it is in progress.
CrawlIdle ==
  /\ cseed = <<>> /\ cengine = "none" /\ ckeys = TRUE /\ cthreshold = 0
  /\ clim = 0 /\ cstart = NoneVal /\ cend = NoneVal /\ cspan = NoneVal
  /\ cstat = "idle" /\ cseedtext = NoneVal /\ csents = <<>> /\ csi = 0
  /\ cresults = <<>> /\ cri = 0 /\ cmatches = <<>> /\ clast = NoStep
  /\ files = [f \in FileNames |-> NoFile]

(***************************************************************************)
(* The inputs of a direct call of search_gdelt_single.                     *)
(***************************************************************************)
MaxPieces == 4
MaxCap == 1

RECURSIVE Concat(_)
Concat(ps) == IF ps = <<>> THEN <<>> ELSE Head(ps) \o Concat(Tail(ps))

\* Queries: every concatenation of at most MaxPieces of these pieces.
Pieces == {<<"n", "e", "a", "r", "5", ":">>, <<DQ>>, <<" ">>, <<"a">>, <<"b", "c", "d">>}
RepairQueries == {Concat(p) : p \in UNION {[1..n -> Pieces] : n \in 0..MaxPieces}}

\* start / end values: None, "", the three accepted shapes, a datetime
\* object, a padded date, and shapes _gdelt_fmt refuses.
D_compact == <<"2", "0", "2", "4", "0", "3", "0", "1", "1", "2", "3", "0", "4", "5">>
D_bare == <<"2", "0", "2", "4", "0", "3", "0", "1">>
D_iso == <<"2", "0", "2", "4", "-", "0", "3", "-", "0", "1">>
D_datetime == <<"<datetime>">> \o D_compact
D_padded == <<" ">> \o D_iso \o <<" ">>
D_word == <<"n", "o", "t", "-", "a", "-", "d", "a", "t", "e">>
D_short == <<"2", "0", "2", "4", "-", "3", "-", "1">>
D_slash == <<"2", "0", "2", "4", "/", "0", "3", "/", "0", "1">>
D_blank == <<" ">>
GoodDates == {D_compact, D_bare, D_iso, D_datetime, D_padded}
BadDates == {D_word, D_short, D_slash, D_blank}
DateInputs == {NoneVal, <<>>} \cup GoodDates \cup BadDates
SampleQuery == <<"n", "e", "a", "r", "5", ":", DQ, "a", DQ, " ", "a">>

InitSingleInputs ==
  \/ /\ sq0 \in RepairQueries
     /\ smax = GdeltLimit
     /\ sstart = NoneVal /\ send = NoneVal /\ sspan = NoneVal
  \/ /\ sq0 = SampleQuery
     /\ smax \in 0..MaxCap
     /\ sstart \in DateInputs /\ send \in DateInputs
     /\ sspan \in {NoneVal, <<"7d">>}

InitSingle ==
  /\ OthersIdle
  /\ entry = "single"
  /\ VariantsIdle /\ DdgIdle /\ GoogleIdle /\ CrawlIdle
  /\ cnet = 0
  /\ InitSingleInputs
  /\ sq = sq0
  /\ sstat = "ready"
  /\ sreqs = <<>>
  /\ slast = NoResponse
  /\ sret = <<>>

NextSingle == search_gdelt_single_send \/ search_gdelt_single_receive

SpecSingle == InitSingle /\ [][NextSingle]_vars

(***************************************************************************)
(* The inputs of a direct call of search_gdelt_variants.                   *)
(***************************************************************************)
MaxWords == 2
MaxLimit == 2

W_Bank == <<"B", "a", "n", "k">>
W_rates == <<"r", "a", "t", "e", "s">>
W_the == <<"t", "h", "e">>
W_EU == <<"E", "U">>
W_ab == <<"a", "b">>
Vocabulary == {W_Bank, W_rates, W_the, W_EU, W_ab}
\* Sentences: at most MaxWords words of the vocabulary, space-separated.
Sentences == {Join(w, <<" ">>) : w \in UNION {[1..n -> Vocabulary] : n \in 0..MaxWords}}
SampleSentence == Join(<<W_Bank, W_rates>>, <<" ">>)
\* A sentence with five tokens, one of them an acronym, after a stop word, a
\* short word and a repeated word are dropped.
W_rose == <<"r", "o", "s", "e">>
W_fast == <<"f", "a", "s", "t">>
LongSentence ==
  Join(<<W_the, W_rates, W_ab, W_Bank, W_EU, W_rates, W_rose, W_fast>>, <<" ">>) \o <<".">>

InitVariantsInputs ==
  \/ /\ vsentence \in Sentences
     /\ vlimit \in 0..MaxLimit
     /\ vstart = NoneVal /\ vend = NoneVal /\ vspan = NoneVal
  \/ /\ vsentence = SampleSentence
     /\ vlimit = GdeltLimit
     /\ vstart \in {D_iso, D_word} /\ vend \in {NoneVal, D_bare}
     /\ vspan \in {NoneVal, <<"7d">>}
  \/ /\ vsentence = LongSentence
     /\ vlimit = 1
     /\ vstart = NoneVal /\ vend = NoneVal /\ vspan = NoneVal

InitVariants ==
  /\ OthersIdle
  /\ entry = "variants"
  /\ InitVariantsInputs
  /\ vqueries = <<>> /\ vidx = 0 /\ vurls = <<>> /\ vseen = {}
  /\ vstat = "ready" /\ vret = <<>>
  /\ SingleIdle /\ DdgIdle /\ GoogleIdle /\ CrawlIdle
  /\ cnet = 0

NextVariants ==
  \/ search_gdelt_variants_call
  \/ search_gdelt_single_send
  \/ search_gdelt_single_receive
  \/ search_gdelt_variants_resume

SpecVariants == InitVariants /\ [][NextVariants]_vars

(***************************************************************************)
(* Direct calls of the three adapters.                                     *)
(***************************************************************************)
InitDuckduckgo ==
  /\ OthersIdle
  /\ entry = "duckduckgo"
  /\ dq = SampleSentence
  /\ dmax \in (0..MaxCap) \cup {DdgMaxResults}
  /\ dstat = "ready" /\ dlast = NoDdgResponse /\ dret = <<>>
  /\ SingleIdle /\ VariantsIdle /\ GoogleIdle /\ CrawlIdle
  /\ cnet = 0

InitGoogle ==
  /\ OthersIdle
  /\ entry = "google"
  /\ gq = SampleSentence
  /\ gnum \in (0..MaxCap) \cup {GoogleNum}
  /\ gstat = "ready" /\ glast = NoGoogleResponse /\ gret = <<>>
  /\ SingleIdle /\ VariantsIdle /\ DdgIdle /\ CrawlIdle
  /\ cnet = 0

InitAdapters == InitSingle \/ InitDuckduckgo \/ InitGoogle

NextAdapters ==
  \/ search_gdelt_single_send
  \/ search_gdelt_single_receive
  \/ search_duckduckgo
  \/ search_google_cse

SpecAdapters == InitAdapters /\ [][NextAdapters]_vars

(***************************************************************************)
(* A run of crawl_and_compare (echo_spider.py 88-179).                     *)
(***************************************************************************)
\* What extract_article_text can give for the seed: None (the download or
\* the parse raised), "", or one of these texts.  S_second is a sentence of
\* stop words, for which build_gdelt_queries has no variant.
S_first == Join(<<W_Bank, W_rates, W_the, W_EU, W_Bank, W_rates, W_EU>>, <<" ">>)
S_second == Join(<<W_the, W_the, W_the, W_the, W_the, W_the, W_the>>, <<" ">>)
T_one == S_first \o <<".">>
T_two == S_first \o <<".", " ">> \o W_Bank \o <<".", " ">> \o S_second \o <<".">>
SeedTexts == {T_one, T_two}
SeedOutcomes == {NoneVal, <<>>} \cup SeedTexts

\* A seed URL no result URL contains.
U_far == <<"x">>

\* The frames of the adapters after their caller took the result.
ResetSingle ==
  /\ sq0' = <<>> /\ sq' = <<>> /\ smax' = 0
  /\ sstart' = NoneVal /\ send' = NoneVal /\ sspan' = NoneVal
  /\ sstat' = "idle" /\ sreqs' = <<>> /\ slast' = NoResponse /\ sret' = <<>>
ResetVariants ==
  /\ vsentence' = <<>> /\ vlimit' = 0
  /\ vstart' = NoneVal /\ vend' = NoneVal /\ vspan' = NoneVal
  /\ vqueries' = <<>> /\ vidx' = 0 /\ vurls' = <<>> /\ vseen' = {}
  /\ vstat' = "idle" /\ vret' = <<>>
ResetDdg ==
  dq' = <<>> /\ dmax' = 0 /\ dstat' = "idle" /\ dlast' = NoDdgResponse /\ dret' = <<>>
ResetGoogle ==
  gq' = <<>> /\ gnum' = 0 /\ gstat' = "idle" /\ glast' = NoGoogleResponse /\ gret' = <<>>

\* Line 119 testing `seed_text is None`.
HasSeedText_notNone(text) == text # NoneVal

\* Line 119: `if not seed_text`
HasSeedText(text) == Truthy(text)

\* Lines 117-128: extract the seed; without text the run ends there.  (The
\* seed domain of line 128 is only handed to build_gdelt_queries, which
\* ignores it.)
crawl_and_compare_seed ==
  /\ cstat = "ready"
  /\ \E text \in SeedOutcomes :
       /\ cseedtext' = text
       /\ IF HasSeedText(text)
          THEN cstat' = "loop" /\ csents' = get_top_sentences(text)
          ELSE cstat' = "aborted" /\ csents' = <<>>
  /\ cmatches' = <<>>
  /\ csi' = 0
  /\ UNCHANGED <<entry, ovars, svars, vvars, dvars, gvars, cseed, cengine, ckeys,
                 cthreshold, clim, cstart, cend, cspan, cresults, cri, clast,
                 files, cnet>>

\* Lines 130-147: call the adapter of the engine for the next sentence.
\* Any engine other than gdelt and duckduckgo takes the Google branch, where
\* config[...] raises KeyError when the keys are missing.
crawl_and_compare_search ==
  /\ cstat = "loop"
  /\ csi < Len(csents)
  /\ LET sent == csents[csi + 1]
     IN IF cengine = "gdelt"
        THEN /\ vsentence' = StripQuotes(sent)
             /\ vlimit' = clim
             /\ vstart' = cstart /\ vend' = cend /\ vspan' = cspan
             /\ vqueries' = <<>> /\ vidx' = 0 /\ vurls' = <<>> /\ vseen' = {}
             /\ vstat' = "ready" /\ vret' = <<>>
             /\ cstat' = "searching"
             /\ UNCHANGED <<dvars, gvars>>
        ELSE IF cengine = "duckduckgo"
        THEN /\ dq' = sent /\ dmax' = DdgMaxResults
             /\ dstat' = "ready" /\ dlast' = NoDdgResponse /\ dret' = <<>>
             /\ cstat' = "searching"
             /\ UNCHANGED <<vvars, gvars>>
        ELSE IF ckeys
        THEN /\ gq' = sent /\ gnum' = GoogleNum
             /\ gstat' = "ready" /\ glast' = NoGoogleResponse /\ gret' = <<>>
             /\ cstat' = "searching"
             /\ UNCHANGED <<vvars, dvars>>
        ELSE /\ cstat' = "raised"
             /\ UNCHANGED <<vvars, dvars, gvars>>
  /\ UNCHANGED <<entry, ovars, svars, cseed, cengine, ckeys, cthreshold, clim, cstart,
                 cend, cspan, cseedtext, csents, csi, cresults, cri, cmatches,
                 clast, files, cnet>>

\* The loop position once k of the results in hand are handled.
Advance(results, k) ==
  IF k < Len(results)
  THEN cstat' = "candidates" /\ cresults' = results /\ cri' = k /\ csi' = csi
  ELSE cstat' = "loop" /\ cresults' = <<>> /\ cri' = 0 /\ csi' = csi + 1

\* Lines 132-149 once the adapter is back: an error it raised ends the run
\* there; else its list becomes results and the delay is slept.
crawl_and_compare_results ==
  /\ cstat = "searching"
  /\ IF cengine = "gdelt"
     THEN /\ vstat \in {"returned", "raised"}
          /\ IF vstat = "raised"
             THEN /\ cstat' = "raised"
                  /\ UNCHANGED <<cresults, cri, csi, cnet>>
             ELSE /\ Advance(vret, 0)
                  /\ cnet' = 0
          /\ ResetSingle /\ ResetVariants
          /\ UNCHANGED <<dvars, gvars>>
     ELSE IF cengine = "duckduckgo"
     THEN /\ dstat = "returned"
          /\ Advance(dret, 0)
          /\ cnet' = 0
          /\ ResetDdg
          /\ UNCHANGED <<svars, vvars, gvars>>
     ELSE /\ gstat = "returned"
          /\ Advance(gret, 0)
          /\ cnet' = 0
          /\ ResetGoogle
          /\ UNCHANGED <<svars, vvars, dvars>>
  /\ UNCHANGED <<entry, ovars, cseed, cengine, ckeys, cthreshold, clim, cstart, cend,
                 cspan, cseedtext, csents, cmatches, clast, files>>

\* Lines 151-174: the loop body for the next result.  The two `continue`
\* of lines 155 and 160 go back to the loop head, past the sleep of line
\* 174.
crawl_and_compare_candidate ==
  /\ cstat = "candidates"
  /\ cri < Len(cresults)
  /\ LET url == cresults[cri + 1]
     IN IF Contains(url, cseed)
        THEN /\ clast' = Step(url, FALSE, NoText, FALSE, NoScores, 0, FALSE, FALSE)
             /\ Advance(cresults, cri + 1)
             /\ UNCHANGED <<cmatches, cnet>>
        ELSE \E text \in CandidateTexts :
               IF text.len = 0 \/ text.len < MinCandidateLen
               THEN /\ clast' = Step(url, TRUE, text, FALSE, NoScores, 0, FALSE, FALSE)
                    /\ Advance(cresults, cri + 1)
                    /\ cnet' = NetOp(cnet)
                    /\ UNCHANGED cmatches
               ELSE \E sc \in ScoreOutcomes :
                      IF sc.raises
                      THEN /\ clast' = Step(url, TRUE, text, FALSE, NoScores, 0, FALSE, FALSE)
                           /\ cstat' = "raised"
                           /\ cnet' = NetOp(cnet)
                           /\ UNCHANGED <<cmatches, cresults, cri, csi>>
                      ELSE LET r == is_match(sc.semantic, sc.fuzzy, cthreshold)
                           IN /\ clast' = Step(url, TRUE, text, TRUE, sc, r.score, r.match, r.match)
                              /\ cmatches' = IF r.match
                                             THEN Append(cmatches, Match(url, r.score, text))
                                             ELSE cmatches
                              /\ Advance(cresults, cri + 1)
                              /\ cnet' = 0
  /\ UNCHANGED <<entry, ovars, svars, vvars, dvars, gvars, cseed, cengine, ckeys,
                 cthreshold, clim, cstart, cend, cspan, cseedtext, csents, files>>

\* Lines 176-179, after the last sentence: write found_matches.
crawl_and_compare_save ==
  /\ cstat = "loop"
  /\ csi = Len(csents)
  /\ files' = [files EXCEPT ![OutFile(cengine)] = File(cmatches)]
  /\ cstat' = "done"
  /\ UNCHANGED <<entry, ovars, svars, vvars, dvars, gvars, cseed, cengine, ckeys,
                 cthreshold, clim, cstart, cend, cspan, cseedtext, csents, csi,
                 cresults, cri, cmatches, clast, cnet>>

\* A threshold given with four decimals (0.9004).
FineThreshold == 9004

\* A file an earlier run, on another seed URL, left in the output directory
\* for each engine.
OldFile == File(<<Match(U_other, 900, Text("old", SnippetLen))>>)

\* The arguments of a run: a GDELT run with and without a date window, good
\* and bad, and runs on the two other engines.
InitCrawlInputs ==
  \/ /\ cengine = "gdelt"
     /\ cseed = U_far
     /\ ckeys = TRUE
     /\ clim = GdeltLimit
     /\ cstart = NoneVal /\ cend = NoneVal
     /\ cspan = GdeltTimespan
     /\ files = [f \in FileNames |-> NoFile]
     /\ cthreshold = SimilarityThreshold
  \/ /\ cengine = "gdelt"
     /\ cseed = U_seed
     /\ ckeys = TRUE
     /\ clim = 1
     /\ cstart = D_iso /\ cend \in {NoneVal, D_word}
     /\ cspan = GdeltTimespan
     /\ files = [f \in FileNames |-> OldFile]
     /\ cthreshold = SimilarityThreshold
  \/ /\ cengine \in {"duckduckgo", "google"}
     /\ cseed \in {U_seed, U_far}
     /\ ckeys \in BOOLEAN
     /\ clim = GdeltLimit
     /\ cstart = NoneVal /\ cend = NoneVal
     /\ cspan = GdeltTimespan
     /\ files \in {[f \in FileNames |-> NoFile], [f \in FileNames |-> OldFile]}
     /\ cthreshold = SimilarityThreshold
  \/ /\ cengine = "google"
     /\ cseed = U_far
     /\ ckeys = TRUE
     /\ clim = GdeltLimit
     /\ cstart = NoneVal /\ cend = NoneVal
     /\ cspan = GdeltTimespan
     /\ files = [f \in FileNames |-> NoFile]
     /\ cthreshold = FineThreshold

InitCrawl ==
  /\ OthersIdle
  /\ entry = "crawl"
  /\ InitCrawlInputs
  /\ cstat = "ready" /\ cseedtext = NoneVal /\ csents = <<>> /\ csi = 0
  /\ cresults = <<>> /\ cri = 0 /\ cmatches = <<>> /\ clast = NoStep
  /\ SingleIdle /\ VariantsIdle /\ DdgIdle /\ GoogleIdle
  /\ cnet = 0

NextCrawl ==
  \/ crawl_and_compare_seed
  \/ crawl_and_compare_search
  \/ search_gdelt_variants_call
  \/ search_gdelt_single_send
  \/ search_gdelt_single_receive
  \/ search_gdelt_variants_resume
  \/ search_duckduckgo
  \/ search_google_cse
  \/ crawl_and_compare_results
  \/ crawl_and_compare_candidate
  \/ crawl_and_compare_save

SpecCrawl == InitCrawl /\ [][NextCrawl]_vars

(***************************************************************************)
(* Direct calls of get_top_sentences.                                      *)
(***************************************************************************)
MaxFragments == 3
MaxN == 2
MaxW == 2

\* Fragments without a full stop: a sentence, the same with curly quotes
\* and blanks around it, a title, fragments of 25 and of 26 characters, and
\* a title with 13 blanks on each side.
F_curly == <<" ", "ldquo">> \o W_Bank \o <<"rsquo", "s", " ">> \o S_first \o <<"rdquo", " ">>
F_25 == Take(S_first, MinFragmentLen)
F_26 == Take(S_first, MinFragmentLen + 1)
F_padded == [i \in 1..13 |-> " "] \o W_Bank \o [i \in 1..13 |-> " "]
Fragments == {S_first, F_curly, W_Bank, F_25, F_26, F_padded}

InitSentences ==
  /\ entry = "top_sentences"
  /\ SingleIdle /\ VariantsIdle /\ DdgIdle /\ GoogleIdle /\ CrawlIdle
  /\ cnet = 0
  /\ tfrags \in UNION {[1..k -> Fragments] : k \in 0..MaxFragments}
  /\ ttext = Join(tfrags, <<".">>)
  /\ tn \in (0..MaxN) \cup {TopN}
  /\ tmaxw \in (0..MaxW) \cup {MaxSnippetWords}
  /\ tcalls = 0 /\ tprev = <<>> /\ tret = <<>>
  /\ ReuseIdle /\ AnomaliesIdle /\ EnricherIdle

NextSentences == get_top_sentences_call

SpecSentences == InitSentences /\ [][NextSentences]_vars

(***************************************************************************)
(* A run of build_reuse_map.                                               *)
(***************************************************************************)
MaxFiles == 2
MaxEntries == 2

\* Snippets.  The first two differ after their 1000th character only.  The
\* next two open with a blank and differ in their 1001st character only:
\* stripped, the first of them is the first 1000 characters of X_long1.
X_long1 == <<Run("a", 999), Run("b", 1), Run("c", 5)>>
X_long2 == <<Run("a", 999), Run("b", 1), Run("d", 5)>>
X_pad1 == <<Run(" ", 1), Run("a", 999), Run("b", 1)>>
X_pad2 == <<Run(" ", 1), Run("a", 999), Run("c", 1)>>
X_blank == <<Run(" ", 2), Run("\n", 1)>>
X_short == <<Run("a", 1), Run("b", 250), Run("\n", 1)>>
Snippets == {X_long1, X_long2, X_pad1, X_pad2, X_blank, X_short}

R_www == <<"h", "t", "t", "p", ":", "/", "/", "w", "w", "w", ".", "A", ".", "o", "r", "g", "/", "1">>
R_bare == <<"h", "t", "t", "p", "s", ":", "/", "/", "a", ".", "o", "r", "g", "?", "2">>
R_path == <<"b", ".", "i", "o", "/", "x">>
L_ai == <<"a", "i">>

Entries ==
  {Entry(X_long1, R_www, Missing, L_ai),
   Entry(X_long2, R_bare, Missing, Missing),
   Entry(X_pad1, R_www, Missing, L_ai),
   Entry(X_pad2, R_path, Missing, Missing),
   Entry(X_blank, R_www, Missing, L_ai),
   Entry(Missing, R_bare, Missing, L_ai),
   Entry(X_short, R_bare, R_bare, L_ai),
   Entry(X_short, Missing, R_www, L_ai)}

FileName(i) == <<"matches_gdelt_labeled.json",
                 "matches_google_labeled.json",
                 "matches_zz_labeled.json">>[i]

FileContents ==
  {[parses |-> FALSE, entries |-> <<>>]}
    \cup {[parses |-> TRUE, entries |-> es] :
            es \in UNION {[1..k -> Entries] : k \in 0..MaxEntries}}

InitReuse ==
  /\ entry = "build_reuse_map"
  /\ SingleIdle /\ VariantsIdle /\ DdgIdle /\ GoogleIdle /\ CrawlIdle
  /\ cnet = 0
  /\ TopIdle /\ AnomaliesIdle /\ EnricherIdle
  /\ \E k \in 0..MaxFiles : \E cs \in [1..k -> FileContents] :
       rfiles = [i \in 1..k |-> InputFile(FileName(i), cs[i].parses, cs[i].entries)]
  /\ rfi = 0 /\ rentries = <<>> /\ rei = 0
  /\ rmap = <<>>
  /\ rstat = "files"

NextReuse == build_reuse_map_file \/ build_reuse_map_entry

SpecReuse == InitReuse /\ [][NextReuse]_vars

(***************************************************************************)
(* Calls of detect_anomalies.                                              *)
(***************************************************************************)
MaxGroups == 2
MaxSources == 3

A_org == <<"a", ".", "o", "r", "g">>
B_io == <<"b", ".", "i", "o">>
C_net == <<"c", ".", "n", "e", "t">>
L_news == <<"n", "e", "w", "s">>

\* The label stored in a source is not always the one the mapping gives.
Items == {Item(A_org, Unclassified), Item(B_io, L_news), Item(C_net, L_ai)}

LabelMaps ==
  {<<>>,
   (A_org :> L_ai),
   (A_org :> L_ai) @@ (B_io :> L_news),
   (A_org :> Unclassified) @@ (C_net :> L_ai)}

HashName(g) == <<<<"h", "1">>, <<"h", "2">>, <<"h", "3">>>>[g]

SourceLists ==
  {[keyed |-> FALSE, sources |-> <<>>]}
    \cup {[keyed |-> TRUE, sources |-> ss] :
            ss \in UNION {[1..k -> Items] : k \in 0..MaxSources}}

InitAnomalies ==
  /\ entry = "detect_anomalies"
  /\ SingleIdle /\ VariantsIdle /\ DdgIdle /\ GoogleIdle /\ CrawlIdle
  /\ cnet = 0
  /\ TopIdle /\ ReuseIdle /\ EnricherIdle
  /\ \E k \in 0..MaxGroups : \E ss \in [1..k -> SourceLists] :
       amap = [g \in 1..k |-> Group(HashName(g), ss[g].keyed, ss[g].sources)]
  /\ alabels \in LabelMaps
  /\ acalls = 0 /\ aprev = <<>> /\ aret = <<>>

NextAnomalies == detect_anomalies_call

SpecAnomalies == InitAnomalies /\ [][NextAnomalies]_vars

(***************************************************************************)
(* Calls of _download_cert on one DomainEnricher.                          *)
(***************************************************************************)
MaxDownloads == 3

CertIds == {"c1", "c2"}
\* The seconds between the end of a call and the next call.
Gaps == {0, 1, RateLimitDelay}

InitEnricher ==
  /\ entry = "download_cert"
  /\ SingleIdle /\ VariantsIdle /\ DdgIdle /\ GoogleIdle /\ CrawlIdle
  /\ cnet = 0
  /\ TopIdle /\ ReuseIdle /\ AnomaliesIdle
  /\ ecache \in [CertIds -> {NoCacheFile, CertContent}]
  /\ elast = 0
  /\ enow = StartTime
  /\ esends = <<>>
  /\ ecalls = 0
  /\ eret = "<None>"

_download_cert_call ==
  /\ entry = "download_cert"
  /\ ecalls < MaxDownloads
  /\ \E cert_id \in CertIds, gap \in Gaps, out \in CertOutcomes :
       _download_cert(cert_id, gap, out)

NextEnricher == _download_cert_call

SpecEnricher == InitEnricher /\ [][NextEnricher]_vars

(***************************************************************************)
(* Claims on search_gdelt_single, checked under SpecSingle.                *)
(***************************************************************************)

\* C1: for every original query and every sequence of backend responses,
\* one call of search_gdelt_single sends at most two HTTP requests (at most
\* one repaired retry); a repaired query answered with a non-JSON error
\* page is not rewritten and retried again.
C1_AtMostOneRetry == Len(sreqs) <= 2

\* A measure of a query that every retry of lines 253-257 strictly lowers:
\* a NEAR-strip or a token drop shortens the query (or, at equal length,
\* turns other whitespace into spaces), a quote-wrap lengthens it by 2 but
\* makes it quoted, and a rewrite that un-quotes a quoted query removes at
\* least 3 characters.
OtherSpaces(q) == Cardinality({i \in 1..Len(q) : IsSpace(q[i]) /\ q[i] # " "})
Measure(q) == 2 * Len(q) + (IF IsQuoted(q) THEN 0 ELSE 5) + OtherSpaces(q)

\* C2: search_gdelt_single terminates whatever the backend answers: the
\* chain of rewritten queries is finite.  Each retry lowers Measure, a
\* natural number, so a call that started with query sq0 sends at most
\* Measure(sq0) + 1 requests.
C2_RepairChainFinite ==
  sreqs # <<>> => (Len(sreqs) - 1) + Measure(sq) <= Measure(sq0)

\* C2 witness: a call that returned after a chain of three retries.
C2_Witness == sstat = "returned" /\ Len(sreqs) >= 4

\* The rewrite of the first signature found is missing, empty or equal to
\* the query just sent (a quote-wrap is never empty nor equal).
NoUsableRewrite(q, sigs) ==
  \/ sigs = {}
  \/ "near" \in sigs /\ RewriteNear(q) \in {<<>>, q}
  \/ "near" \notin sigs /\ "short" \in sigs /\ RewriteShort(q) \in {<<>>, q}

\* C3: after a non-JSON answer in whose head no known signature is found,
\* or whose matching rewrite is empty or equal to the query just sent,
\* search_gdelt_single has returned the empty list and the request that
\* was answered is the last one it sent.
C3_AbandonOnNoRewrite ==
  (slast.resp.kind = "nonjson" /\ NoUsableRewrite(slast.query, slast.resp.sigs))
    => /\ sstat = "returned"
       /\ sret = <<>>
       /\ sreqs[Len(sreqs)].query = slast.query

\* C3 witness: a repaired retry was answered with the NEAR signature again,
\* the NEAR-strip left the query as it was, and the call returned.
C3_Witness ==
  /\ sstat = "returned"
  /\ Len(sreqs) = 2
  /\ slast.resp.kind = "nonjson"
  /\ "near" \in slast.resp.sigs
  /\ RewriteNear(slast.query) = slast.query

\* A start or end that is supplied: not None and not the empty string
\* (lines 237-241 test it for truth).
Supplied(x) == Truthy(x)

\* One of the three accepted shapes: YYYYMMDD, YYYYMMDDHHMMSS, YYYY-MM-DD.
AcceptedShape(s) ==
  \/ Len(s) \in {8, 14} /\ AllDigits(s)
  \/ IsIsoDate(s)

RECURSIVE DigitsOf(_)
\* The digits of s, in order.
DigitsOf(s) ==
  IF s = <<>> THEN <<>>
  ELSE (IF Head(s) \in Digits THEN <<Head(s)>> ELSE <<>>) \o DigitsOf(Tail(s))

\* t is the 14-digit timestamp of the date string s: the digits of s, then
\* zeros.
IsTimestampOf(t, s) ==
  /\ Len(t) = 14
  /\ AllDigits(t)
  /\ SubSeq(t, 1, Len(DigitsOf(s))) = DigitsOf(s)
  /\ \A i \in (Len(DigitsOf(s)) + 1)..14 : t[i] = "0"

Timestamp_2024_03_01 ==
  <<"2", "0", "2", "4", "0", "3", "0", "1", "0", "0", "0", "0", "0", "0">>

\* The explicit parameter p of every request sent is the timestamp of the
\* date string x, when x is a date string of an accepted shape.
NormalisedIn(x, p) ==
  \A i \in 1..Len(sreqs) :
     /\ (~IsDatetime(x) /\ AcceptedShape(Strip(x))) => IsTimestampOf(p[i], Strip(x))
     /\ x = D_iso => p[i] = Timestamp_2024_03_01

\* The call raised (or is about to, at its entry) and did nothing else: no
\* request was sent and nothing was returned.
RaisedBeforeAnyRequest == sstat \in {"ready", "raised"} /\ sreqs = <<>> /\ sret = <<>>

\* C9 as stated: a date of an accepted shape is normalised to 14 digits,
\* and a start or end (anything but None) of any other shape makes
\* search_gdelt_single raise before any HTTP request is sent.
C9_AnyOtherShapeRaises ==
  /\ NormalisedIn(sstart, [i \in 1..Len(sreqs) |-> sreqs[i].STARTDATETIME])
  /\ NormalisedIn(send, [i \in 1..Len(sreqs) |-> sreqs[i].ENDDATETIME])
  /\ (\E x \in {sstart, send} : x # NoneVal /\ ~IsDatetime(x) /\ ~AcceptedShape(x))
       => RaisedBeforeAnyRequest

\* C9 as amended: surrounding whitespace is trimmed before the shape is
\* tested and an empty string counts as not supplied.  A supplied date
\* whose trimmed form has an accepted shape is normalised to 14 digits
\* ("2024-03-01" gives "20240301000000"); a supplied start or end whose
\* trimmed form has any other shape makes search_gdelt_single raise before
\* any HTTP request is sent, and nothing is returned or retried.
C9_DateFormat ==
  /\ NormalisedIn(sstart, [i \in 1..Len(sreqs) |-> sreqs[i].STARTDATETIME])
  /\ NormalisedIn(send, [i \in 1..Len(sreqs) |-> sreqs[i].ENDDATETIME])
  /\ (\E x \in {sstart, send} : Supplied(x) /\ ~IsDatetime(x) /\ ~AcceptedShape(Strip(x)))
       => RaisedBeforeAnyRequest

\* C9 witness: a call with a well-formed start and the end "not-a-date"
\* has raised.
C9_Witness == sstat = "raised" /\ sstart = D_iso /\ send = D_word

\* C10: when a start or an end is supplied (even with a timespan), every
\* request carries the explicit window (STARTDATETIME when start is
\* supplied, ENDDATETIME when end is) and no timespan; the timespan is sent
\* only when neither is supplied; a repaired retry carries the same window
\* as the first attempt.
C10_ExplicitWindowFirst ==
  \A i \in 1..Len(sreqs) :
     LET r == sreqs[i]
     IN /\ (Supplied(sstart) \/ Supplied(send)) => r.timespan = Absent
        /\ Supplied(sstart) <=> r.STARTDATETIME # Absent
        /\ Supplied(send) <=> r.ENDDATETIME # Absent
        /\ ~(Supplied(sstart) \/ Supplied(send))
             => r.timespan = (IF sspan = NoneVal THEN GdeltTimespan ELSE sspan)
        /\ r.timespan # Absent => ~Supplied(sstart) /\ ~Supplied(send)
        /\ r.STARTDATETIME = sreqs[1].STARTDATETIME
        /\ r.ENDDATETIME = sreqs[1].ENDDATETIME
        /\ r.timespan = sreqs[1].timespan

\* C10 witness: a call given a start, no end and a timespan sent a repaired
\* retry.
C10_Witness ==
  /\ Len(sreqs) >= 2
  /\ Supplied(sstart) /\ ~Supplied(send)
  /\ sspan # NoneVal

(***************************************************************************)
(* Claims on search_gdelt_variants, checked under SpecVariants.            *)
(***************************************************************************)
NoDuplicates(seq) == \A i, j \in 1..Len(seq) : i # j => seq[i] # seq[j]

Occurs(seq, u) == \E i \in 1..Len(seq) : seq[i] = u
FirstIndex(seq, u) == CHOOSE i \in 1..Len(seq) : seq[i] = u /\ \A j \in 1..(i - 1) : seq[j] # u

\* kept holds URLs of the sequence all, each once, ordered by their first
\* occurrence in all, and none that first occurs after one that is left out.
KeepsFirstOccurrences(all, kept) ==
  /\ NoDuplicates(kept)
  /\ \A i \in 1..Len(kept) : kept[i] # NoUrl /\ Occurs(all, kept[i])
  /\ \A i, j \in 1..Len(kept) :
        i < j => FirstIndex(all, kept[i]) < FirstIndex(all, kept[j])
  /\ \A i \in 1..Len(kept) : \A k \in 1..Len(all) :
        (all[k] # NoUrl /\ k < FirstIndex(all, kept[i])) => Occurs(kept, all[k])

\* C6: search_gdelt_variants never holds or returns the same URL twice,
\* whatever the per-variant calls return; when the hits of a variant are
\* taken in, each URL stays at (or is added at) the position of its first
\* occurrence in the URLs held so far followed by the new hits.
C6_NoDuplicateUrls ==
  /\ [](NoDuplicates(vurls) /\ NoDuplicates(vret))
  /\ [][(vstat = "waiting" /\ sstat = "returned")
          => /\ KeepsFirstOccurrences(vurls \o sret, vurls')
             /\ SubSeq(vurls', 1, Len(vurls)) = vurls
             /\ (vstat' = "returned" => vret' = vurls')]_vars

\* C6 witness: a call with the default limit returned <<u2, u1>> after its
\* third variant, whose hits were <<u1, u2>>: u2 was held before and
\* came again.
C6_Witness ==
  /\ vstat = "returned"
  /\ vlimit = GdeltLimit
  /\ vidx = 3
  /\ vret = <<U_other, U_echo>>
  /\ sret = <<U_echo, U_other>>

\* C7: for every sentence, every limit >= 0 and every backend behaviour,
\* the list search_gdelt_variants returns holds at most limit URLs.
C7_AtMostLimit == vstat = "returned" => Len(vret) <= vlimit

\* 1 for a query that starts with a NEAR clause, 2 for one that starts with
\* a quoted phrase, 3 for a bag of terms.
VariantRank(q) == IF NearAt(q, 1) # 0 THEN 1 ELSE IF q[1] = DQ THEN 2 ELSE 3

\* The variants are in generation order and are called in that order.
InGenerationOrder ==
  /\ \A i, j \in 1..Len(vqueries) : i < j => VariantRank(vqueries[i]) < VariantRank(vqueries[j])
  /\ vstat = "waiting" => vidx \in 1..Len(vqueries) /\ sq0 = vqueries[vidx]

\* C8: the variants are issued one at a time in generation order (NEAR,
\* short phrase, AND-only bag), and no request is sent once the
\* accumulated URL list has reached the limit.
C8_OrderAndShortCircuit ==
  /\ []InGenerationOrder
  /\ [][(sstat = "ready" /\ sstat' = "sent") => Len(vurls) < vlimit]_vars

\* C8 for limits of 1 and more (not a claim of the list: the part of C8
\* that the code keeps).
C8_ForPositiveLimit ==
  /\ []InGenerationOrder
  /\ [][(sstat = "ready" /\ sstat' = "sent" /\ vlimit >= 1) => Len(vurls) < vlimit]_vars

(***************************************************************************)
(* Claims on the three adapters, checked under SpecAdapters.               *)
(***************************************************************************)

\* C5: every adapter truncates its output to the result cap: whatever the
\* query, the cap and the number of results the backend sends, the list
\* returned by search_gdelt_single, search_duckduckgo or search_google_cse
\* has at most cap URLs.
C5_TruncatedToCap ==
  /\ sstat = "returned" => Len(sret) <= smax
  /\ dstat = "returned" => Len(dret) <= dmax
  /\ gstat = "returned" => Len(gret) <= gnum

(***************************************************************************)
(* Claims on a run of crawl_and_compare, checked under SpecCrawl.          *)
(***************************************************************************)

\* The answer an adapter handled last was a retrieval failure: a transport
\* error, a status other than 2xx, or a payload that cannot be parsed.
GdeltFailed ==
  \/ slast.resp.kind \in {"transport", "http_error", "badjson"}
  \/ slast.resp.status \in {"3xx", "4xx5xx"}
DdgFailed ==
  \/ dlast.kind \in {"transport", "parse_error"}
  \/ dlast.status = "non2xx"
GoogleFailed == glast.kind \in {"transport", "http_error", "badpayload"}

\* Each adapter turns a retrieval failure into an empty list, and
\* search_gdelt_single raises on a bad date only.
FailureGivesEmptyList ==
  /\ sstat = "returned" /\ GdeltFailed => sret = <<>>
  /\ sstat = "raised" => DatesRaise(sstart, send)
  /\ dstat = "returned" /\ DdgFailed => dret = <<>>
  /\ gstat = "returned" /\ GoogleFailed => gret = <<>>

\* search_gdelt_variants passes to the next variant after a failed one,
\* and crawl_and_compare takes a failed search as a search without results:
\* it neither ends the run nor handles a candidate, and passes to the next
\* sentence.
GoesOnAfterFailure ==
  /\ (vstat = "waiting" /\ sstat = "returned" /\ GdeltFailed /\ vidx < Len(vqueries))
       => (vstat' = "waiting" /\ vidx' = vidx + 1 /\ vurls' = vurls)
  /\ (cstat = "searching" /\ cstat' # "searching" /\ vstat # "raised")
       => cstat' \in {"candidates", "loop"}
  /\ (cstat = "searching" /\ cstat' # "searching"
        /\ \/ cengine = "duckduckgo" /\ DdgFailed
           \/ cengine = "google" /\ GoogleFailed)
       => (cstat' = "loop" /\ csi' = csi + 1 /\ cmatches' = cmatches)

\* C4: a retrieval failure is non-fatal per query: for every adapter
\* (search_gdelt_single with valid dates, search_duckduckgo,
\* search_google_cse) a transport error, a non-2xx status or an unparseable
\* payload makes the adapter return an empty list instead of raising, and
\* crawl_and_compare goes on with the remaining query variants.
C4_FailureIsNonFatal == [](FailureGivesEmptyList) /\ [][GoesOnAfterFailure]_vars

\* What does hold of C4: the statement restricted to the failures the
\* adapters see as exceptions (a transport error, a 4xx/5xx status of GDELT,
\* any error of the Google client, a payload that does not parse).
GdeltRaised == slast.resp.kind \in {"transport", "http_error", "badjson"}
DdgRaised == dlast.kind \in {"transport", "parse_error"}
C4_OnExceptions ==
  /\ [](/\ sstat = "returned" /\ GdeltRaised => sret = <<>>
        /\ sstat = "raised" => DatesRaise(sstart, send)
        /\ dstat = "returned" /\ DdgRaised => dret = <<>>
        /\ gstat = "returned" /\ GoogleFailed => gret = <<>>)
  /\ [][/\ (vstat = "waiting" /\ sstat = "returned" /\ GdeltRaised /\ vidx < Len(vqueries))
             => (vstat' = "waiting" /\ vidx' = vidx + 1 /\ vurls' = vurls)
        /\ (cstat = "searching" /\ cstat' # "searching" /\ vstat # "raised")
             => cstat' \in {"candidates", "loop"}
        /\ (cstat = "searching" /\ cstat' # "searching"
              /\ \/ cengine = "duckduckgo" /\ DdgRaised
                 \/ cengine = "google" /\ GoogleFailed)
             => (cstat' = "loop" /\ csi' = csi + 1 /\ cmatches' = cmatches)]_vars

\* The result handled last was scored with sub-scores whose mean is at
\* least the threshold (sub-scores and threshold in ten-thousandths).
MeanReachesThreshold == clast.scores.semantic + clast.scores.fuzzy >= 2 * cthreshold
\* The score is_match returned for it (in thousandths) is at least the
\* threshold.
ReturnedReachesThreshold == clast.score * 10 >= cthreshold

\* The score returned is the mean rounded to 3 decimals, and a Match with
\* that score is appended exactly when is_match said so.
ScoreAndAppend ==
  /\ clast.scored =>
       /\ clast.score = Round3(clast.scores.semantic + clast.scores.fuzzy)
       /\ clast.appended <=> clast.match
  /\ clast.appended =>
       /\ cmatches # <<>>
       /\ cmatches[Len(cmatches)] = Match(clast.url, clast.score, clast.text)
AppendOnlyOnMatch ==
  cmatches' # cmatches =>
    /\ clast'.appended
    /\ cmatches' = Append(cmatches, Match(clast'.url, clast'.score, clast'.text))
PersistedMatches ==
  IF cstat = "done" THEN files[OutFile(cengine)].matches ELSE cmatches

\* C11 as stated: is_match returns (m, s) where s is the mean of the two
\* sub-scores rounded to 3 decimals and m is true if and only if
\* s >= threshold; crawl_and_compare appends a Match exactly when m is true,
\* so a persisted Match always has similarity >= threshold and no scored
\* candidate with returned score >= threshold is left out.
C11_MatchIffReturnedScore ==
  /\ ScoreAndAppend
  /\ clast.scored => (clast.match <=> ReturnedReachesThreshold)
  /\ clast.scored /\ ReturnedReachesThreshold => clast.appended
  /\ \A i \in 1..Len(PersistedMatches) : PersistedMatches[i].similarity * 10 >= cthreshold

\* What does hold of C11: m is true if and only if the mean itself (before
\* rounding) is at least the threshold; s is the mean rounded to 3
\* decimals; a Match is appended exactly when m is true, so the similarity
\* of a persisted Match is the rounding of a mean that reaches the
\* threshold (below the threshold by less than 0.0005 at worst).
C11_OnTheMean ==
  /\ [](/\ ScoreAndAppend
        /\ clast.scored => (clast.match <=> MeanReachesThreshold)
        /\ \A i \in 1..Len(PersistedMatches) :
             PersistedMatches[i].similarity * 20 >= 2 * cthreshold - 10)
  /\ [][AppendOnlyOnMatch]_vars

(***************************************************************************)
(* Claims on get_top_sentences, checked under SpecSentences.               *)
(***************************************************************************)

\* The fragments of the text whose trimmed length exceeds the minimum, in
\* document order.
Qualifying ==
  LET Exceeds(f) == Len(Strip(f)) > MinFragmentLen
  IN SelectSeq(tfrags, Exceeds)

\* r is the fragment f cut to at most tmaxw words and wrapped in double
\* quotes.
IsQuotedCut(r, f) ==
  LET inner == SubSeq(r, 2, Len(r) - 1)
  IN /\ Len(r) >= 2 /\ r[1] = DQ /\ r[Len(r)] = DQ
     /\ \A k \in 1..Len(inner) : inner[k] # DQ
     /\ Len(Split(inner)) <= tmaxw
     /\ inner = Join(Take(Split(ReplaceQuotes(f)), tmaxw), <<" ">>)

\* C12: get_top_sentences(text, n=K, max_words=W) returns, in document
\* order, exactly the first K sentence fragments whose trimmed length exceeds
\* 25 characters, each cut to at most W words and wrapped in double quotes;
\* so it returns an empty list for an empty text or a text whose fragments
\* are all too short, exactly one quoted variant for K=1 on a text with one
\* qualifying sentence, and the same list every time for the same text and
\* configuration.
C12_TopSentences ==
  tcalls > 0 =>
    /\ Len(tret) = Min(tn, Len(Qualifying))
    /\ \A i \in 1..Len(tret) : IsQuotedCut(tret[i], Qualifying[i])
    /\ (ttext = <<>> \/ Qualifying = <<>>) => tret = <<>>
    /\ (tn = 1 /\ Len(Qualifying) = 1) => Len(tret) = 1
    /\ tcalls = MaxCalls => tret = tprev

\* Called twice with K=1 and W=2 on a text of three fragments, two of them
\* qualifying after one of exactly 25 characters: one snippet of two words.
C12_Witness ==
  /\ tcalls = MaxCalls
  /\ tn = 1 /\ tmaxw = 2
  /\ Len(tfrags) = 3 /\ tfrags[1] = F_25 /\ Len(Qualifying) = 2
  /\ Len(tret) = 1
  /\ Len(Split(tret[1])) = 2

\* Nothing was sent, fetched or collected by the run.
NothingDone ==
  /\ SingleIdle /\ VariantsIdle /\ DdgIdle /\ GoogleIdle
  /\ cnet = 0 /\ clast = NoStep /\ cresults = <<>> /\ cmatches = <<>>

\* Once the seed gave no text the run is over: no step follows.
AbortIsFinal == ~(cstat # "ready" /\ ~Truthy(cseedtext))

\* Only the end of a run that had a seed text writes a file.
OnlySaveWrites == files' # files => (Truthy(cseedtext) /\ cstat' = "done")

\* A candidate whose extraction gave nothing is passed over: nothing is
\* appended and the loop is at the next result, or at the next sentence
\* after the last result.
FailedCandidateIsSkipped ==
  (cstat = "candidates" /\ clast'.fetched /\ clast'.text.len = 0) =>
    /\ cmatches' = cmatches
    /\ clast'.url = cresults[cri + 1]
    /\ \/ cstat' = "candidates" /\ cri' = cri + 1 /\ csi' = csi /\ cresults' = cresults
       \/ cstat' = "loop" /\ cri + 1 = Len(cresults) /\ csi' = csi + 1

\* C13: if extraction of the seed yields no text, crawl_and_compare aborts
\* the whole run: it sends no search request, fetches no candidate and
\* writes no match file (a match file left by an earlier run is unchanged);
\* a failed candidate extraction only skips that candidate and the run
\* continues.
C13_SeedFailureAborts ==
  /\ []((cstat # "ready" /\ ~Truthy(cseedtext)) => (cstat = "aborted" /\ NothingDone))
  /\ [][AbortIsFinal /\ OnlySaveWrites /\ FailedCandidateIsSkipped]_vars

\* The seed gave the empty string, and the file of an earlier run is there
\* as it was.
C13_Witness ==
  /\ cstat = "aborted"
  /\ cseedtext = <<>>
  /\ files[OutFile(cengine)] = OldFile

\* The delay is slept at the end of every step that fetched a candidate,
\* and of the step that takes the result of a search.
SleepAfterFetchAndSearch ==
  /\ (cstat = "candidates" /\ clast'.fetched /\ cstat' # "raised") => cnet' = 0
  /\ (cstat = "searching" /\ cstat' \in {"candidates", "loop"}) => cnet' = 0

\* C14: in crawl_and_compare the politeness delay is slept after every
\* search call and after every candidate fetch, whatever the outcome of the
\* fetch: in every run, no two network operations (search request or
\* candidate article download) happen without a sleep of the delay between
\* them.
C14_SleepBetweenNetworkOps == [](cnet <= 1) /\ [][SleepAfterFetchAndSearch]_vars

\* What does hold of C14: the delay is slept after every search call, and
\* after the fetch of every candidate that was scored.
C14_SleepAfterSearchAndScoring ==
  [][/\ (cstat = "candidates" /\ clast'.scored) => cnet' = 0
     /\ (cstat = "searching" /\ cstat' \in {"candidates", "loop"}) => cnet' = 0]_vars

\* The URL equals the seed URL or has it as a part.
IsSelfReference(url) ==
  \E i \in 1..(Len(url) + 1), j \in 0..Len(url) : SubSeq(url, i, j) = cseed

\* The step that handles the next result: what it does with it.
HandlesResult ==
  cstat = "candidates" =>
    LET url == cresults[cri + 1]
        step == clast'
        matched == /\ step.scored
                   /\ is_match(step.scores.semantic, step.scores.fuzzy, cthreshold).match
    IN /\ step.url = url
       /\ step.appended <=>
            (~IsSelfReference(url) /\ step.text.len >= MinCandidateLen /\ matched)
       /\ cmatches' = IF step.appended
                      THEN Append(cmatches, Match(url, step.score, step.text))
                      ELSE cmatches
       /\ IsSelfReference(url) => (~step.fetched /\ ~step.scored /\ cnet' = cnet)
       /\ step.text.len < MinCandidateLen => ~step.scored
       /\ step.scored => step.fetched

\* C15: for every result URL handled by crawl_and_compare, a Match record
\* is appended if and only if the URL does not contain the seed URL,
\* extraction of the candidate yields text of at least 100 characters, and
\* is_match reports a match; a URL that equals or contains the seed URL is
\* never fetched or scored, and a candidate under 100 characters is never
\* scored.
C15_WhenAMatchIsAppended == [][HandlesResult]_vars

\* After a candidate of exactly 100 characters was appended, a result that
\* contains the seed URL without being equal to it is passed over unfetched.
C15_Witness ==
  /\ cseed = U_seed
  /\ clast.url = U_echo /\ ~clast.fetched
  /\ Len(cmatches) = 1
  /\ cmatches[1].snippet.len = MinCandidateLen

\* C16: matches are persisted as one file per (seed, backend) pair: two runs
\* of crawl_and_compare with different seed URLs and the same backend write
\* to different files, so after any sequence of runs the Match list
\* persisted for one seed is not overwritten by a run on another seed.
\* (OldFile is the list a run on another seed persisted.)
C16_OneFilePerSeedAndBackend ==
  [][\A f \in FileNames : files[f] = OldFile => files'[f] = OldFile]_vars

\* What does hold of C16: a run writes the file of its own backend only.
C16_OneFilePerBackend ==
  [][\A f \in FileNames : f # OutFile(cengine) => files'[f] = files[f]]_vars

\* C17: partial results are still written: if a crawl_and_compare run fails
\* (an error raised by a search, extraction, scoring or date-format step)
\* after the seed was extracted, the Matches accumulated up to the point of
\* failure are written to the output file, and no failure leaves an already
\* persisted file corrupted.
C17_PartialResultsWritten ==
  /\ [](cstat = "raised" => files[OutFile(cengine)] = File(cmatches))
  /\ [][cstat' = "raised" =>
          \A f \in FileNames : f # OutFile(cengine) => files'[f] = files[f]]_vars

\* What does hold of C17: a failure leaves every file as it was.
C17_FailureWritesNothing == [][cstat' = "raised" => files' = files]_vars

(***************************************************************************)
(* Claims on build_reuse_map, checked under SpecReuse.                     *)
(***************************************************************************)
RECURSIVE ScannedUpTo(_)
\* The entries of the first f files that the loop body has handled, in the
\* order of the scan, each with the name of its file.
ScannedUpTo(f) ==
  IF f = 0 THEN <<>>
  ELSE LET es == process_file(rfiles[f])
           k == IF f < rfi THEN Len(es) ELSE rei
       IN ScannedUpTo(f - 1) \o [i \in 1..k |-> [e |-> es[i], file |-> rfiles[f].name]]

Scanned == ScannedUpTo(rfi)

\* The snippet of a scanned entry, trimmed of the white space around it.
Trimmed(x) == IF x.e.snippet = Missing THEN <<>> ELSE StripText(x.e.snippet)

\* The scanned entries whose trimmed snippet is not empty.
IsIndexed(x) == Trimmed(x) # <<>>
Indexed == SelectSeq(Scanned, IsIndexed)

\* The digest of the first 1000 characters of the trimmed snippet.
Fingerprint(x) == [sha256 |-> Slice(Trimmed(x), 1000)]

\* Group g holds a source made from the scanned entry x.
HasSourceIn(x, g) ==
  \E j \in 1..Len(rmap[g].sources) :
    /\ rmap[g].sources[j].url = x.e.source
    /\ rmap[g].sources[j].crawl_file = x.file
    /\ rmap[g].sources[j].snippet = Slice(Trimmed(x), 1000)

SameGroup(x, y) == \E g \in 1..Len(rmap) : HasSourceIn(x, g) /\ HasSourceIn(y, g)

\* The snippets of the input files, as they are and trimmed.
InputTexts ==
  LET raw == UNION {{rfiles[f].entries[i].snippet : i \in 1..Len(rfiles[f].entries)} :
                      f \in 1..Len(rfiles)} \ {Missing}
  IN raw \cup {StripText(t) : t \in raw}

\* C18 as stated: generate_content_hash gives the same digest for two texts
\* with the same first 1000 characters, and two entries whose snippets, as
\* the files hold them, agree on their first 1000 characters always land in
\* the same ReuseGroup.
C18_SameRawPrefixSameGroup ==
  \A i, j \in 1..Len(Indexed) :
    Slice(Indexed[i].e.snippet, 1000) = Slice(Indexed[j].e.snippet, 1000)
      => SameGroup(Indexed[i], Indexed[j])

\* C18, amended: generate_content_hash gives the same digest for two texts
\* with the same first 1000 characters, and two entries whose snippets,
\* trimmed of the white space around them, agree on their first 1000
\* characters always land in the same ReuseGroup.
C18_SameTrimmedPrefixSameGroup ==
  /\ \A t1, t2 \in InputTexts :
       Slice(t1, 1000) = Slice(t2, 1000)
         => generate_content_hash(t1) = generate_content_hash(t2)
  /\ \A i, j \in 1..Len(Indexed) :
       Slice(Trimmed(Indexed[i]), 1000) = Slice(Trimmed(Indexed[j]), 1000)
         => SameGroup(Indexed[i], Indexed[j])

\* Two entries whose snippets differ after the 1000th character have been
\* indexed, and one group holds them both.
C18_Witness ==
  \E i, j \in 1..Len(Indexed) :
    /\ Indexed[i].e.snippet # Indexed[j].e.snippet
    /\ TextLen(Trimmed(Indexed[i])) > 1000
    /\ Slice(Trimmed(Indexed[i]), 1000) = Slice(Trimmed(Indexed[j]), 1000)
    /\ Trimmed(Indexed[i]) # Trimmed(Indexed[j])
    /\ SameGroup(Indexed[i], Indexed[j])

\* The number of sources in all the groups of the map.
RECURSIVE SourceCount(_)
SourceCount(map) ==
  IF map = <<>> THEN 0 ELSE Len(Head(map).sources) + SourceCount(Tail(map))

HasSnippet(x) == x.e.snippet # Missing /\ x.e.snippet # <<>>

\* C19 as stated: every scanned entry with a non-empty snippet has
\* contributed exactly one source, to the group keyed by the fingerprint of
\* its snippet, so the groups hold as many sources as there are scanned
\* entries with a non-empty snippet.
C19_OneSourcePerNonEmptySnippet ==
  /\ SourceCount(rmap) = Len(SelectSeq(Scanned, HasSnippet))
  /\ \A i \in 1..Len(Scanned) :
       HasSnippet(Scanned[i])
         => \E g \in 1..Len(rmap) :
              rmap[g].hash = [sha256 |-> Slice(Scanned[i].e.snippet, 1000)]

\* The indexed entries with the fingerprint h, in the order of the scan.
IndexedWith(h) == SelectSeq(Indexed, LAMBDA x : Fingerprint(x) = h)

\* C19, amended: every scanned entry whose snippet is not empty once
\* trimmed has contributed exactly one source to exactly one ReuseGroup, the
\* group keyed by the fingerprint of its trimmed snippet: each group holds
\* one source per such entry with its fingerprint, repeated URLs and
\* domains included; no two groups share a fingerprint; no group has an
\* empty sources list; two entries with the same trimmed prefix and
\* different URLs give one group with 2 sources.
C19_OneSourcePerIndexedEntry ==
  /\ \A g \in 1..Len(rmap) : rmap[g].sources # <<>>
  /\ \A g1, g2 \in 1..Len(rmap) : g1 # g2 => rmap[g1].hash # rmap[g2].hash
  /\ \A i \in 1..Len(Indexed) :
       \E g \in 1..Len(rmap) : rmap[g].hash = Fingerprint(Indexed[i])
  /\ \A g \in 1..Len(rmap) :
       LET xs == IndexedWith(rmap[g].hash)
       IN /\ Len(rmap[g].sources) = Len(xs)
          /\ \A x \in {xs[k] : k \in 1..Len(xs)} : HasSourceIn(x, g)
  /\ SourceCount(rmap) = Len(Indexed)
  /\ (/\ Len(Indexed) = 2
      /\ Fingerprint(Indexed[1]) = Fingerprint(Indexed[2])
      /\ Indexed[1].e.source # Indexed[2].e.source)
       => Len(rmap) = 1 /\ Len(rmap[1].sources) = 2

\* The scan has returned a map in which one group holds two sources with
\* the same URL and another group holds two sources with different URLs.
C19_Witness ==
  /\ rstat = "returned"
  /\ \E g \in 1..Len(rmap) :
       /\ Len(rmap[g].sources) = 2
       /\ rmap[g].sources[1].url = rmap[g].sources[2].url
  /\ \E g \in 1..Len(rmap) :
       /\ Len(rmap[g].sources) = 2
       /\ rmap[g].sources[1].url # rmap[g].sources[2].url

\* A step leaves every group where it is, with its fingerprint, its
\* representative_snippet and the sources it had, in their order, at the
\* head of its sources list.
GroupsOnlyGrow ==
  /\ Len(rmap') >= Len(rmap)
  /\ \A g \in 1..Len(rmap) :
       /\ rmap'[g].hash = rmap[g].hash
       /\ rmap'[g].representative_snippet = rmap[g].representative_snippet
       /\ Len(rmap'[g].sources) >= Len(rmap[g].sources)
       /\ SubSeq(rmap'[g].sources, 1, Len(rmap[g].sources)) = rmap[g].sources

\* The representative_snippet of a group is the first 200 characters of the
\* snippet of its first source, the snippet being the trimmed one that
\* lines 59-74 work on.
RepresentativeIsFirstSeen ==
  \A g \in 1..Len(rmap) :
    /\ rmap[g].sources # <<>>
    /\ rmap[g].representative_snippet = Slice(rmap[g].sources[1].snippet, 200)
    /\ \E i \in 1..Len(Indexed) :
         /\ HasSourceIn(Indexed[i], g)
         /\ rmap[g].representative_snippet = Slice(Trimmed(Indexed[i]), 200)
         /\ \A k \in 1..(i - 1) : Fingerprint(Indexed[k]) # rmap[g].hash

\* C20: scanning further entries only appends to a ReuseGroup: once a group
\* exists, its representative_snippet (the first 200 characters of the first
\* snippet seen) and the sources already in it are never changed, removed or
\* reordered, so sources is in first-seen order.
C20_AppendOnly == [](RepresentativeIsFirstSeen) /\ [][GroupsOnlyGrow]_vars

\* A group made while the first file was scanned got a second source from
\* the second file, after another group had been made.
C20_Witness ==
  /\ Len(rmap) >= 2
  /\ Len(rmap[1].sources) = 2
  /\ rmap[1].sources[1].crawl_file = FileName(1)
  /\ rmap[1].sources[2].crawl_file = FileName(2)
  /\ rmap[2].sources[1].crawl_file = FileName(1)
\* The files that parse, in the order of the scan.
ParsesOK(file) == file.parses
Parseable(fs) == SelectSeq(fs, ParsesOK)

\* A finished run has the outcome of build_reuse_map on its files.
RunIsBuildReuseMap ==
  /\ rstat = "returned"
       => build_reuse_map(rfiles) = [raised |-> FALSE, map |-> rmap]
  /\ rstat = "raised"
       => build_reuse_map(rfiles) = [raised |-> TRUE, map |-> rmap]

\* Taking a file that does not parse leaves the map alone and goes on to the
\* next file.
SkipsUnparseable ==
  (rstat = "files" /\ rfi < Len(rfiles) /\ ~rfiles[rfi + 1].parses)
    => rmap' = rmap /\ rfi' = rfi + 1 /\ rstat' = "files"

\* C21: a file that does not parse is skipped and indexing goes on: the
\* reuse map built from files some of which do not parse is the reuse map
\* built from those that parse alone, and the file that does not parse
\* makes build_reuse_map raise nothing.
C21_UnparseableFileIsSkipped ==
  /\ [](RunIsBuildReuseMap)
  /\ [](build_reuse_map(rfiles) = build_reuse_map(Parseable(rfiles)))
  /\ [][SkipsUnparseable]_vars

\* The run has returned a map with a source from the second file, the first
\* file being one that does not parse.
C21_Witness ==
  /\ rstat = "returned"
  /\ Len(rfiles) = 2
  /\ ~rfiles[1].parses
  /\ rfiles[2].parses
  /\ Len(rmap) >= 1
  /\ rmap[1].sources[1].crawl_file = FileName(2)
\* The scanned entry x carries its URL under `url` and has no `source`.
IsUrlOnly(x) == x.e.source = Missing /\ x.e.url # Missing

\* C22: an entry with a non-empty snippet that carries its URL in the `url`
\* field only is indexed like one carrying `source`: it adds a source with
\* that URL to the group of its fingerprint and does not abort the run.
C22_UrlOnlyEntryIsIndexed ==
  /\ rstat # "raised"
  /\ \A i \in 1..Len(Indexed) :
       IsUrlOnly(Indexed[i])
         => \E g \in 1..Len(rmap) : \E j \in 1..Len(rmap[g].sources) :
              /\ rmap[g].hash = Fingerprint(Indexed[i])
              /\ rmap[g].sources[j].url = Indexed[i].e.url

\* What the code does with such an entry: the run ends there, raising, and
\* the entry adds nothing to the map.
C22_UrlOnlyEntryAborts ==
  [][(/\ rstat = "entries"
      /\ SnippetOf(rentries[rei + 1]) # <<>>
      /\ rentries[rei + 1].source = Missing)
       => rstat' = "raised" /\ rmap' = rmap /\ rei' = rei]_vars
(***************************************************************************)
(* Claims on detect_anomalies, checked under SpecAnomalies.                *)
(***************************************************************************)
\* The sources of group g of the input, and their labels under the mapping.
GroupSources(g) == IF amap[g].keyed THEN amap[g].sources ELSE <<>>
MappedLabel(domain) == IF domain \in DOMAIN alabels THEN alabels[domain] ELSE Unclassified
GroupLabels(g) == {MappedLabel(GroupSources(g)[k].domain) : k \in 1..Len(GroupSources(g))}

\* The three rules of the classifier, in their order of priority.
Rule1(g) == Len(GroupSources(g)) >= 2
Rule2(g) == Cardinality(GroupLabels(g)) >= 2
Rule3(g) == GroupLabels(g) \subseteq {Unclassified} /\ Len(GroupSources(g)) >= 3

FirstRuleMatched(g) ==
  IF Rule1(g) THEN "High frequency reuse"
  ELSE IF Rule2(g) THEN "Cross-ideological reuse"
  ELSE IF Rule3(g) THEN "Unclassified cluster reuse"
  ELSE "no rule"

\* The indices of the returned anomalies of group g.
AnomaliesOf(g) == {i \in 1..Len(aret) : aret[i].content_hash = amap[g].hash}

\* C23: detect_anomalies emits at most one Anomaly per ReuseGroup: no
\* content_hash appears in two anomaly records, every record is that of a
\* group of the map, and its issue is the first rule matched in the order
\* rule 1, rule 2, rule 3.
C23_AtMostOneAnomalyPerGroup ==
  acalls > 0 =>
    /\ \A i, j \in 1..Len(aret) : aret[i].content_hash = aret[j].content_hash => i = j
    /\ \A i \in 1..Len(aret) :
         \E g \in 1..Len(amap) :
           /\ aret[i].content_hash = amap[g].hash
           /\ aret[i].issue = FirstRuleMatched(g)

\* Two groups each gave one anomaly, and the first of them matches rule 1
\* and the condition of rule 2.
C23_Witness ==
  /\ acalls > 0
  /\ Len(amap) = 2 /\ Len(aret) = 2
  /\ Rule1(1) /\ Rule2(1)
  /\ aret[1].issue = "High frequency reuse"

\* C24: every ReuseGroup with 2 or more sources is classified "High
\* frequency reuse", whatever the number of distinct labels of its sources,
\* a group of three sources on three distinct unlabeled domains included,
\* and the reused_on list of its anomaly has one {domain, label} element
\* per source, in the order of the sources.
C24_TwoSourcesIsHighFrequency ==
  acalls > 0 =>
    \A g \in 1..Len(amap) :
      Len(GroupSources(g)) >= 2 =>
        /\ Cardinality(AnomaliesOf(g)) = 1
        /\ \A i \in AnomaliesOf(g) :
             /\ aret[i].issue = "High frequency reuse"
             /\ Len(aret[i].reused_on) = Len(GroupSources(g))
             /\ \A k \in 1..Len(GroupSources(g)) :
                  aret[i].reused_on[k] =
                    [domain |-> GroupSources(g)[k].domain,
                     label |-> MappedLabel(GroupSources(g)[k].domain)]

\* A group of three sources on three distinct domains, none of them in the
\* mapping, was classified "High frequency reuse".
C24_Witness ==
  /\ acalls > 0
  /\ alabels = <<>>
  /\ \E g \in 1..Len(amap) :
       /\ Len(GroupSources(g)) = 3
       /\ Cardinality({GroupSources(g)[k].domain : k \in 1..3}) = 3
       /\ GroupLabels(g) = {Unclassified}
       /\ \E i \in AnomaliesOf(g) :
            aret[i].issue = "High frequency reuse" /\ Len(aret[i].reused_on) = 3

\* The reuse map with the label stored in every source replaced.
Relabelled(map) ==
  [g \in 1..Len(map) |->
     [map[g] EXCEPT !.sources = [k \in 1..Len(@) |-> [@[k] EXCEPT !.label = <<"x">>]]]]

\* C25: anomaly classification is a pure function of the reuse map and the
\* label mapping: a call leaves both inputs as they were, a second call on
\* the same inputs returns the list the first returned, and the list is the
\* one returned for the map with other labels stored in its sources.
C25_PureFunction ==
  /\ [](acalls >= 2 => aret = aprev)
  /\ [](acalls > 0 => aret = detect_anomalies(Relabelled(amap), alabels))
  /\ [][amap' = amap /\ alabels' = alabels]_vars

\* Two calls were made on a map one source of which stores a label that is
\* not the label the anomaly reports for it.
C25_Witness ==
  /\ acalls >= 2
  /\ aret # <<>>
  /\ \E g \in 1..Len(amap) : \E i \in AnomaliesOf(g) : \E k \in 1..Len(GroupSources(g)) :
       GroupSources(g)[k].label # aret[i].reused_on[k].label

\* C26: detect_anomalies emits an Anomaly for a group if and only if the
\* group has at least 2 sources, and its issue is then always "High
\* frequency reuse": "Cross-ideological reuse" and "Unclassified cluster
\* reuse" are never emitted.
C26_OnlyHighFrequency ==
  acalls > 0 =>
    /\ \A g \in 1..Len(amap) : (AnomaliesOf(g) # {}) <=> (Len(GroupSources(g)) >= 2)
    /\ \A i \in 1..Len(aret) : aret[i].issue = "High frequency reuse"

\* A group of one source gave no anomaly, and a group of three sources that
\* are all unclassified and a group with two distinct labels gave "High
\* frequency reuse".
C26_Witness ==
  /\ acalls > 0
  /\ \E g \in 1..Len(amap) : Len(GroupSources(g)) = 1 /\ AnomaliesOf(g) = {}
  /\ \E g \in 1..Len(amap) :
       /\ (Rule3(g) \/ Rule2(g))
       /\ \E i \in AnomaliesOf(g) : aret[i].issue = "High frequency reuse"
(***************************************************************************)
(* Claims on build_gdelt_queries, checked under SpecVariants.              *)
(***************************************************************************)
\* A word of the sentence qualifies when it is no stop word and has three
\* characters or more, or is an acronym of the allow list.
WordQualifies(w) ==
  /\ ToStr(Lower(w)) \notin STOP
  /\ Len(w) >= 3 \/ ToStr(Upper(w)) \in ACRONYM_ALLOW

\* The words of the sentence, its full stop aside.
WordsOf(sentence) ==
  Split(SelectSeq(sentence, LAMBDA c : c # "."))

\* The qualifying words of the sentence, in lower case.
QualifyingTokens(sentence) ==
  LET ws == WordsOf(sentence)
  IN {Lower(ws[i]) : i \in {k \in 1..Len(ws) : WordQualifies(ws[k])}}

NormalisedSpaces(q) == Join(Split(q), <<" ">>)

\* C27: build_gdelt_queries returns an empty list exactly when the sentence
\* yields no qualifying token; otherwise it returns between one and three
\* variants, none of them empty and no two equal after whitespace
\* normalisation, in the order NEAR variant, short-phrase variant (only when
\* at least 2 head terms exist), AND-only bag.  The list is the one the call
\* of search_gdelt_variants gets from it.
C27_VariantsOfASentence ==
  [][vstat = "ready" =>
       LET tokens == QualifyingTokens(vsentence)
           norm == [i \in 1..Len(vqueries') |-> NormalisedSpaces(vqueries'[i])]
           rank == [i \in 1..Len(vqueries') |-> VariantRank(vqueries'[i])]
       IN /\ vqueries' = <<>> <=> tokens = {}
          /\ vqueries' # <<>> => Len(vqueries') \in 1..3
          /\ \A i \in 1..Len(vqueries') : vqueries'[i] # <<>>
          /\ \A i, j \in 1..Len(vqueries') : norm[i] = norm[j] => i = j
          /\ \A i, j \in 1..Len(vqueries') : i < j => rank[i] < rank[j]
          /\ vqueries' # <<>> => rank[1] = 1
          /\ (\E i \in 1..Len(vqueries') : rank[i] = 2) => Cardinality(tokens) >= 2]_vars

\* The sentence of five tokens gave its three variants: a NEAR variant on
\* the three head terms, a phrase on two of them and a bag without the
\* two-letter acronym.
C27_Witness ==
  /\ vstat # "ready"
  /\ vsentence = LongSentence
  /\ Cardinality(QualifyingTokens(vsentence)) = 5
  /\ Len(vqueries) = 3
  /\ VariantRank(vqueries[1]) = 1 /\ VariantRank(vqueries[2]) = 2 /\ VariantRank(vqueries[3]) = 3
  /\ vqueries[3] = Join(<<W_Bank, W_rates, W_rose, W_fast>>, <<" ">>)
                     \o <<" ", "s", "o", "u", "r", "c", "e", "l", "a", "n", "g", ":">> \o Sourcelang
(***************************************************************************)
(* Further claims on search_gdelt_single, checked under SpecSingle.        *)
(***************************************************************************)
\* The rewrite of the first signature, in the order invalid-NEAR, too-short,
\* illegal-character, that the head holds; the query itself when the head
\* holds none, or only the illegal-character one and the query is quoted.
FirstRuleRewrite(q, sigs) ==
  IF "near" \in sigs THEN RewriteNear(q)
  ELSE IF "short" \in sigs THEN RewriteShort(q)
  ELSE IF "illegal" \in sigs /\ ~IsQuoted(q) THEN RewriteWrap(q)
  ELSE q

\* C28: _retry_fix_query applies at most one rewrite per rejected response,
\* that of the first signature present in the order invalid-NEAR,
\* too-short, illegal-character: after a non-JSON answer the query of the
\* retry is that one rewrite of the query answered, and when that rewrite
\* is empty or leaves the query unchanged the call has returned the empty
\* list without a retry, whatever other signatures the head holds.
C28_FirstSignatureOnly ==
  slast.resp.kind = "nonjson" =>
    LET q == slast.query
        first == FirstRuleRewrite(q, slast.resp.sigs)
    IN IF first \in {<<>>, q}
       THEN /\ sstat = "returned"
            /\ sret = <<>>
            /\ sreqs[Len(sreqs)].query = q
       ELSE /\ sstat \in {"ready", "sent"}
            /\ sq = first

\* The head held the invalid-NEAR and the illegal-character signatures, the
\* NEAR-strip left the unquoted query as it was, and the call returned
\* without wrapping the query in quotes.
C28_Witness ==
  /\ sstat = "returned"
  /\ slast.resp.kind = "nonjson"
  /\ slast.resp.sigs = {"near", "illegal"}
  /\ ~IsQuoted(slast.query)
  /\ slast.query # <<>>
  /\ RewriteNear(slast.query) = slast.query
  /\ sreqs[Len(sreqs)].query = slast.query
\* The call has returned and the request answered last is the last one it
\* sent: the answer triggered no rewrite and no retry.
ReturnedWithoutRetry ==
  /\ sstat = "returned"
  /\ sreqs[Len(sreqs)].query = slast.query

\* C29: the repair protocol is entered only for a 2xx response whose
\* content type is not JSON: an answer with another status, a transport
\* error or a timeout never triggers a rewrite or a retry, whatever its
\* body says, and a failure during the repaired retry yields an empty list
\* for the original call.
C29_RepairOnlyFor2xxNonJson ==
  /\ (slast.resp.kind # "none" /\ slast.resp.status # "2xx") => ReturnedWithoutRetry
  /\ (Len(sreqs) >= 2 /\ slast.query = sreqs[Len(sreqs)].query
        /\ slast.resp.kind \in {"transport", "http_error", "badjson"})
       => sstat = "returned" /\ sret = <<>>

\* What does hold: a transport error, a timeout, a 4xx or 5xx status and a
\* body that is no JSON under a JSON content type give the empty list with
\* no rewrite and no retry, on the first request and on a repaired one.
C29_FailuresNeverRetry ==
  slast.resp.kind \in {"transport", "http_error", "badjson"}
    => ReturnedWithoutRetry /\ sret = <<>>
(***************************************************************************)
(* Claims on DomainEnricher._download_cert, checked under SpecEnricher.    *)
(***************************************************************************)
\* The seconds between request i and the request before it.
Spacing(i) == esends[i].t - esends[i - 1].t

\* A step that sends a request sends one, for a cert_id that has no
\* certificate in the cache.
SendsOnlyOnCacheMiss ==
  esends' # esends =>
    /\ Len(esends') = Len(esends) + 1
    /\ SubSeq(esends', 1, Len(esends)) = esends
    /\ ecache[esends'[Len(esends')].cert_id] # CertContent

\* C30: any two consecutive certificate download requests sent by
\* _download_cert are at least rate_limit_delay seconds apart, whatever the
\* outcome of the earlier request (success, HTTP error, or a raised
\* transport exception), and a call for a certificate found in the cache
\* sends no request.
C30_RateLimitFloor ==
  /\ [](\A i \in 2..Len(esends) : Spacing(i) >= RateLimitDelay)
  /\ [][SendsOnlyOnCacheMiss]_vars

\* What does hold: a request that follows one that was answered, with any
\* status, is sent rate_limit_delay seconds or more after it.
C30_FloorAfterAResponse ==
  \A i \in 2..Len(esends) :
    esends[i - 1].kind # "raises" => Spacing(i) >= RateLimitDelay

\* What does hold: a call for a certificate found in the cache sends no
\* request.
C30_CacheHitSendsNothing == [][SendsOnlyOnCacheMiss]_vars
=============================================================================
